---- MODULE Spec2Model ----
(***************************************************************************)
(* A model of the two-pass assembler (first_pass.c, second_pass.c,         *)
(* symbol_structs.c, utils.c, output_files.c, main.c).                     *)
(*                                                                         *)
(* A C string is modelled as the sequence of its characters (one-character *)
(* strings); a char* that walks along a line is the remaining suffix.  The *)
(* parsing functions are translated character by character.                *)
(***************************************************************************)
EXTENDS Integers, Sequences, FiniteSets, TLC

\* ------------------------------------------------------------------------
\* Program constants
\* ------------------------------------------------------------------------
MEM_SIZE == 1024

MEM_START == 100
MAX_SYMBOL_LEN == 31
REG_LEN == 3
MIN_REG_INDEX == 0
MAX_REG_INDEX == 7
ARE_BITS == 2
DEFAULT_ADDR == 0
OP_MAX_NUM_COMMAS == 1
OPCODE_BITS == 4
ADDR_MODE_BITS == 3
SRC_MODE_START_POS == 9
SRC_MODE_END_POS == 11
DEST_MODE_START_POS == 2
DEST_MODE_END_POS == 4
BITS_IN_REG == 5
SKIP_TO_NUM_REG == 2
\* unsigned int is 32 bits wide
UINT_BITS == 32

\* enum are
ABSOLUTE == 0
EXTERNAL == 1
RELOCATABLE == 2

\* enum addressing_mode
IMMEDIATE_ADDR == 1
DIRECT_ADDR == 3
REG_DIRECT_ADDR == 5
NONE_ADDR == -1

\* enum opcode (MOV_OP = 0 .. STOP_OP = 15) and enum directive
NONE_OP == -1
NONE_DIR == -1
MOV_OP == 0
CMP_OP == 1
ADD_OP == 2
SUB_OP == 3
NOT_OP == 4
CLR_OP == 5
LEA_OP == 6
INC_OP == 7
DEC_OP == 8
JMP_OP == 9
BNE_OP == 10
RED_OP == 11
PRN_OP == 12
JSR_OP == 13
RTS_OP == 14
STOP_OP == 15
DATA == 0
STRING_DIR == 1
ENTRY == 2
EXTERN == 3

\* ------------------------------------------------------------------------
\* Characters (<ctype.h> in the C locale)
\* ------------------------------------------------------------------------
\* The null pointer; no character sequence equals it.
NULL == <<"NULL">>

Digits == <<"0", "1", "2", "3", "4", "5", "6", "7", "8", "9">>

\* The printable ASCII characters in code order, from 32 (space) to 126
\* (the lexer has no literal for the backquote, code 96).
Ascii ==
    <<" ", "!", "\"", "#", "$", "%", "&", "'", "(", ")", "*", "+", ",", "-", ".", "/",
      "0", "1", "2", "3", "4", "5", "6", "7", "8", "9", ":", ";", "<", "=", ">", "?",
      "@", "A", "B", "C", "D", "E", "F", "G", "H", "I", "J", "K", "L", "M", "N", "O",
      "P", "Q", "R", "S", "T", "U", "V", "W", "X", "Y", "Z", "[", "\\", "]", "^", "_",
      "<backquote>", "a", "b", "c", "d", "e", "f", "g", "h", "i", "j", "k", "l", "m", "n", "o",
      "p", "q", "r", "s", "t", "u", "v", "w", "x", "y", "z", "{", "|", "}", "~">>

isspace(c) == c \in {" ", "\t", "\n", "\r", "\f"}

isdigit(c) == \E i \in 1..10 : Digits[i] = c

isalpha(c) == \E i \in (34..59) \cup (66..91) : Ascii[i] = c

isalnum(c) == isalpha(c) \/ isdigit(c)

\* (unsigned int)ch for a character of the line
CharCode(c) ==
    IF c = "\t" THEN 9
    ELSE IF c = "\n" THEN 10
    ELSE 31 + (CHOOSE i \in 1..95 : Ascii[i] = c)

DigitVal(c) == (CHOOSE i \in 1..10 : Digits[i] = c) - 1

Pow2(n) == 2 ^ n

\* An unsigned int is represented by the 32-bit two's complement integer
\* with the same bits (the value printed by "%d"), so that the conversions
\* between int and unsigned int leave the representation unchanged and every
\* operation below is the operation on 32 bits.
\* word << n on 32 bits
ShiftLeft(word, n) ==
    LET low == word % Pow2(UINT_BITS - n)
    IN  IF low >= Pow2(UINT_BITS - 1 - n)
        THEN (low - Pow2(UINT_BITS - n)) * Pow2(n)
        ELSE low * Pow2(n)

\* a | b on 32 bits
RECURSIVE BitOr(_, _)
BitOr(a, b) ==
    IF a = 0 THEN b
    ELSE IF b = 0 THEN a
    ELSE IF a = -1 \/ b = -1 THEN -1
    ELSE (IF a % 2 = 1 \/ b % 2 = 1 THEN 1 ELSE 0) + 2 * BitOr(a \div 2, b \div 2)

\* s + n for a char* s that points into a string
Drop(s, n) == SubSeq(s, n + 1, Len(s))

\* A local variable: v is computed once and the statements F that follow the
\* assignment read it.
With(v, F(_)) == F(v)

\* ------------------------------------------------------------------------
\* utils.c: lexical utilities
\* ------------------------------------------------------------------------
RECURSIVE skip_whitespaces(_)
skip_whitespaces(str) ==
    IF str = NULL THEN NULL
    ELSE IF str # <<>> /\ isspace(Head(str)) THEN skip_whitespaces(Tail(str))
    ELSE str

RECURSIVE trim_end_whitespaces(_)
trim_end_whitespaces(str) ==
    IF str # <<>> /\ isspace(str[Len(str)])
    THEN trim_end_whitespaces(SubSeq(str, 1, Len(str) - 1))
    ELSE str

trim_whitespaces(str) == trim_end_whitespaces(skip_whitespaces(str))

is_empty(line) ==
    With(skip_whitespaces(line), LAMBDA l : l = NULL \/ l = <<>>)

should_ignore(line) ==
    With(skip_whitespaces(line), LAMBDA l : is_empty(l) \/ Head(l) = ";")

is_separator(c, seps) == c \in seps

\* Number of leading characters of s that are no separator.
RECURSIVE TokenEnd(_, _)
TokenEnd(s, seps) ==
    IF s = <<>> \/ is_separator(Head(s), seps) THEN 0
    ELSE 1 + TokenEnd(Tail(s), seps)

\* The token copied into dest (src is not NULL).
copy_next_token(src, seps) ==
    With(skip_whitespaces(src), LAMBDA s :
    With(TokenEnd(s, seps), LAMBDA i :
        IF is_empty(s) THEN <<>>
        ELSE IF i < Len(s) /\ s[i + 1] = ":" THEN SubSeq(s, 1, i + 1)
        ELSE SubSeq(s, 1, i)))

extract_remaining_seq(seq, seps) ==
    IF seq = NULL THEN NULL
    ELSE With(skip_whitespaces(seq), LAMBDA s :
         With(Drop(s, TokenEnd(s, seps)), LAMBDA r :
             IF is_empty(s) THEN NULL
             ELSE IF r # <<>> /\ Head(r) = ":" THEN skip_whitespaces(Tail(r))
             ELSE skip_whitespaces(r)))

is_register(token) ==
    /\ Len(token) = REG_LEN
    /\ token[1] = "@"
    /\ token[2] = "r"
    /\ isdigit(token[3])
    /\ DigitVal(token[3]) >= MIN_REG_INDEX
    /\ DigitVal(token[3]) <= MAX_REG_INDEX

OpNames ==
    << <<"m", "o", "v">>, <<"c", "m", "p">>, <<"a", "d", "d">>, <<"s", "u", "b">>,
       <<"n", "o", "t">>, <<"c", "l", "r">>, <<"l", "e", "a">>, <<"i", "n", "c">>,
       <<"d", "e", "c">>, <<"j", "m", "p">>, <<"b", "n", "e">>, <<"r", "e", "d">>,
       <<"p", "r", "n">>, <<"j", "s", "r">>, <<"r", "t", "s">>, <<"s", "t", "o", "p">> >>

DirNames ==
    << <<".", "d", "a", "t", "a">>, <<".", "s", "t", "r", "i", "n", "g">>,
       <<".", "e", "n", "t", "r", "y">>, <<".", "e", "x", "t", "e", "r", "n">> >>

find_operation(op_name) ==
    IF \E i \in 1..16 : OpNames[i] = op_name
    THEN (CHOOSE i \in 1..16 : OpNames[i] = op_name) - 1
    ELSE NONE_OP

find_directive(dir_name) ==
    IF \E i \in 1..4 : DirNames[i] = dir_name
    THEN (CHOOSE i \in 1..4 : DirNames[i] = dir_name) - 1
    ELSE NONE_DIR

\* is_symbol returns a boolean and may print one error; SymbolCheck gives the
\* error it prints: "OK" when it returns TRUE, "NO_COLON" when it returns FALSE
\* without printing.
SymbolCheck(token, is_colon_expected) ==
    With(IF is_colon_expected THEN SubSeq(token, 1, Len(token) - 1) ELSE token, LAMBDA name :
        IF is_colon_expected /\ token[Len(token)] # ":" THEN "NO_COLON"
        ELSE IF Len(name) > MAX_SYMBOL_LEN THEN "SYMBOL_TOO_LONG"
        ELSE IF is_register(name) THEN "SYMBOL_CANNOT_BE_REG"
        ELSE IF find_operation(name) # NONE_OP THEN "SYMBOL_CANNOT_BE_OP"
        ELSE IF find_directive(name) # NONE_DIR THEN "SYMBOL_CANNOT_BE_DIR"
        ELSE IF name = <<>> \/ ~isalpha(name[1]) THEN "SYMBOL_INVALID_FIRST_CHAR"
        ELSE IF \E i \in 2..Len(name) : ~isalnum(name[i]) THEN "SYMBOL_INVALID_CHAR"
        ELSE "OK")

is_symbol(token, is_colon_expected) == SymbolCheck(token, is_colon_expected) = "OK"

\* The errors is_symbol prints, as a sequence.
is_symbol_errs(token, is_colon_expected) ==
    With(SymbolCheck(token, is_colon_expected), LAMBDA r :
        IF r \in {"OK", "NO_COLON"} THEN <<>> ELSE <<r>>)

\* Mutant of encode_are: the word is not shifted.
encode_are_no_shift(word, are_val) == BitOr(word, are_val)

encode_are(word, are_val) == BitOr(ShiftLeft(word, ARE_BITS), are_val)

extract_bits(word, start, end) ==
    (word \div Pow2(start)) % Pow2(end - start + 1)

\* <stdlib.h> atoi on a string that holds a number: optional blanks, an
\* optional sign, then the leading digits.
RECURSIVE DigitsValue(_, _)
DigitsValue(s, acc) ==
    IF s = <<>> \/ ~isdigit(Head(s)) THEN acc
    ELSE DigitsValue(Tail(s), 10 * acc + DigitVal(Head(s)))

atoi(str) ==
    With(skip_whitespaces(str), LAMBDA s :
        IF s = <<>> THEN 0
        ELSE IF Head(s) = "-" THEN 0 - DigitsValue(Tail(s), 0)
        ELSE IF Head(s) = "+" THEN DigitsValue(Tail(s), 0)
        ELSE DigitsValue(s, 0))

\* The character at *str ("" stands for the terminating null character).
CharAt(str) == IF str = <<>> THEN "" ELSE Head(str)

\* A global array (main.c, zero-initialised static storage) is a function on
\* the indices written so far; every other element still holds 0.
ReadWord(arr, i) == IF i \in DOMAIN arr THEN arr[i] ELSE 0

WriteWord(arr, i, word) == [j \in DOMAIN arr \cup {i} |-> IF j = i THEN word ELSE arr[j]]

\* The globals are passed along as a record g; print_error appends to g.errs.
print_error(g, error) == [g EXCEPT !.errs = Append(@, error)]

RECURSIVE print_errors(_, _)
print_errors(g, errors) ==
    IF errors = <<>> THEN g
    ELSE print_errors(print_error(g, Head(errors)), Tail(errors))

append_word_to_code(g, word) ==
    [g EXCEPT !.code = WriteWord(@, g.ic, word), !.ic = @ + 1]

\* ------------------------------------------------------------------------
\* symbol_structs.c: the symbol table and the ext table (linked lists, as
\* sequences in list order)
\* ------------------------------------------------------------------------
\* enum statement_type
INSTRUCTION == 0
DIRECTIVE == 1

\* Index of the first symbol called name, 0 for NULL.
find_symbol(table, name) ==
    IF \E i \in 1..Len(table) : table[i].name = name
    THEN CHOOSE i \in 1..Len(table) :
             /\ table[i].name = name
             /\ \A j \in 1..(i - 1) : table[j].name # name
    ELSE 0

\* Mutant of is_existing_symbol: only the head of the table is compared.
is_existing_symbol_head_only(head, name) == head # <<>> /\ head[1].name = name

is_existing_symbol(head, name) == find_symbol(head, name) # 0

get_symbol_addr(head, name) ==
    With(find_symbol(head, name), LAMBDA symbol :
        IF symbol # 0 THEN head[symbol].address ELSE NONE_ADDR)

is_extern_symbol(head, name) ==
    With(find_symbol(head, name), LAMBDA symbol :
        IF symbol # 0 THEN head[symbol].is_ext ELSE FALSE)

\* malloc leaves the type of a symbol that is not external unset (-1 here,
\* no statement_type); parse_line assigns it, or deletes the symbol, before
\* anything reads it.
create_symbol(name, address, is_ext) ==
    [name |-> name, address |-> address, is_ext |-> is_ext, is_ent |-> FALSE,
     type |-> IF is_ext THEN DIRECTIVE ELSE -1]

\* Returns [sym |-> index of the added symbol (0 for NULL), g |-> the globals].
add_symbol_to_list(g, name, address, is_ext) ==
    IF is_existing_symbol(g.symbol_table, name)
    THEN [sym |-> 0, g |-> print_error(g, "SYMBOL_ALREADY_EXISTS")]
    ELSE [sym |-> Len(g.symbol_table) + 1,
          g |-> [g EXCEPT !.symbol_table = Append(@, create_symbol(name, address, is_ext)),
                          !.is_extern_exists = @ \/ is_ext]]

\* Mutant of delete_symbol: only a symbol at the head of the list is unlinked.
delete_symbol_head_only(head, name) ==
    With(find_symbol(head, name), LAMBDA k : IF k = 1 THEN Tail(head) ELSE head)

\* Mutant of delete_symbol: the symbol stays in the list.
delete_symbol_nothing(head, name) == head

delete_symbol(head, name) ==
    With(find_symbol(head, name), LAMBDA k :
        IF k # 0 THEN SubSeq(head, 1, k - 1) \o SubSeq(head, k + 1, Len(head))
        ELSE head)

\* Mutant of update_symbol_addr: the statement type is not compared.
update_symbol_addr_any_type(table, addr_inc, type) ==
    [i \in 1..Len(table) |->
        IF ~table[i].is_ext
        THEN [table[i] EXCEPT !.address = @ + addr_inc]
        ELSE table[i]]

update_symbol_addr(table, addr_inc, type) ==
    [i \in 1..Len(table) |->
        IF ~table[i].is_ext /\ table[i].type = type
        THEN [table[i] EXCEPT !.address = @ + addr_inc]
        ELSE table[i]]

\* Mutant of create_ext: the address is stored without the memory start.
create_ext_no_start(name, address) == [name |-> name, address |-> address - MEM_START]

create_ext(name, address) == [name |-> name, address |-> address]

\* Mutant of add_ext_to_list: the new record becomes the head of the list.
add_ext_to_list_front(head, name, address) == <<create_ext(name, address)>> \o head

add_ext_to_list(head, name, address) == Append(head, create_ext(name, address))

\* Mutant of make_entry: an external symbol is made an entry too.
make_entry_any_symbol(g, name) ==
    With(find_symbol(g.symbol_table, name), LAMBDA k :
        IF k # 0
        THEN [ok |-> TRUE,
              g |-> [g EXCEPT !.symbol_table[k].is_ent = TRUE,
                              !.is_entry_exists = TRUE]]
        ELSE [ok |-> FALSE, g |-> print_error(g, "ENTRY_SYMBOL_NOT_FOUND")])

\* Mutant of make_entry: a missing symbol is passed over without an error.
make_entry_missing_ok(g, name) ==
    With(find_symbol(g.symbol_table, name), LAMBDA k :
        IF k # 0
        THEN IF g.symbol_table[k].is_ext
             THEN [ok |-> FALSE, g |-> print_error(g, "ENTRY_CANNOT_BE_EXTERN")]
             ELSE [ok |-> TRUE,
                   g |-> [g EXCEPT !.symbol_table[k].is_ent = TRUE,
                                   !.is_entry_exists = TRUE]]
        ELSE [ok |-> TRUE, g |-> g])

\* Returns [ok, g]; g has symbol_table, is_entry_exists and errs.
make_entry(g, name) ==
    With(find_symbol(g.symbol_table, name), LAMBDA k :
        IF k # 0
        THEN IF g.symbol_table[k].is_ext
             THEN [ok |-> FALSE, g |-> print_error(g, "ENTRY_CANNOT_BE_EXTERN")]
             ELSE [ok |-> TRUE,
                   g |-> [g EXCEPT !.symbol_table[k].is_ent = TRUE,
                                   !.is_entry_exists = TRUE]]
        ELSE [ok |-> FALSE, g |-> print_error(g, "ENTRY_SYMBOL_NOT_FOUND")])

\* ------------------------------------------------------------------------
\* first_pass.c
\* ------------------------------------------------------------------------
\* Separator sets of the calls to copy_next_token and extract_remaining_seq
SEP_LABEL == {":", "\t", " "}
SEP_COLON == {":"}
SEP_COMMA == {",", "\t", " "}
SEP_BLANK == {"\t", " "}
SEP_NONE == {}

Fail(g) == [ok |-> FALSE, g |-> g]

Succeed(g) == [ok |-> TRUE, g |-> g]

is_number(seq) ==
    IF seq # <<>> /\ Head(seq) \in {"+", "-"}
    THEN /\ Len(seq) >= 2
         /\ isdigit(seq[2])
         /\ \A i \in 3..Len(seq) : isdigit(seq[i])
    ELSE \A i \in 1..Len(seq) : isdigit(seq[i])

is_string(str) ==
    /\ Len(str) >= 2
    /\ str[1] = "\""
    /\ str[Len(str)] = "\""
    /\ \A i \in 2..(Len(str) - 1) : str[i] # "\""

detect_addr_mode(operand) ==
    IF is_number(operand) THEN IMMEDIATE_ADDR
    ELSE IF is_register(operand) THEN REG_DIRECT_ADDR
    ELSE IF is_symbol(operand, FALSE) THEN DIRECT_ADDR
    ELSE NONE_ADDR

\* The errors detect_addr_mode prints (those of its call of is_symbol).
detect_addr_mode_errs(operand) ==
    IF is_number(operand) \/ is_register(operand) THEN <<>>
    ELSE is_symbol_errs(operand, FALSE)

is_valid_operand_count(op_type, has_first, has_second) ==
    IF op_type \in {MOV_OP, CMP_OP, ADD_OP, SUB_OP, LEA_OP} THEN has_first /\ has_second
    ELSE IF op_type \in {NOT_OP, CLR_OP, INC_OP, DEC_OP, JMP_OP, BNE_OP, RED_OP, PRN_OP, JSR_OP}
    THEN has_first /\ ~has_second
    ELSE IF op_type \in {RTS_OP, STOP_OP} THEN ~has_first /\ ~has_second
    ELSE FALSE

\* Mutant of is_valid_mode_combination: lea takes a source of any mode.
is_valid_mode_combination_lea_any(op_type, first_mode, second_mode) ==
    IF op_type \in {MOV_OP, ADD_OP, SUB_OP, LEA_OP}
    THEN /\ first_mode \in {IMMEDIATE_ADDR, DIRECT_ADDR, REG_DIRECT_ADDR}
         /\ second_mode \in {DIRECT_ADDR, REG_DIRECT_ADDR}
    ELSE IF op_type \in {NOT_OP, CLR_OP, INC_OP, DEC_OP, JMP_OP, BNE_OP, RED_OP, JSR_OP}
    THEN first_mode \in {DIRECT_ADDR, REG_DIRECT_ADDR}
    ELSE IF op_type \in {PRN_OP, CMP_OP, RTS_OP, STOP_OP} THEN TRUE
    ELSE FALSE

is_valid_mode_combination(op_type, first_mode, second_mode) ==
    IF op_type \in {MOV_OP, ADD_OP, SUB_OP}
    THEN /\ first_mode \in {IMMEDIATE_ADDR, DIRECT_ADDR, REG_DIRECT_ADDR}
         /\ second_mode \in {DIRECT_ADDR, REG_DIRECT_ADDR}
    ELSE IF op_type = LEA_OP
    THEN first_mode = DIRECT_ADDR /\ second_mode \in {DIRECT_ADDR, REG_DIRECT_ADDR}
    ELSE IF op_type \in {NOT_OP, CLR_OP, INC_OP, DEC_OP, JMP_OP, BNE_OP, RED_OP, JSR_OP}
    THEN first_mode \in {DIRECT_ADDR, REG_DIRECT_ADDR}
    ELSE IF op_type \in {PRN_OP, CMP_OP, RTS_OP, STOP_OP} THEN TRUE
    ELSE FALSE

\* Mutant of append_number_to_data: dc is not advanced.
append_number_to_data_same_dc(g, num) ==
    [g EXCEPT !.data = WriteWord(@, g.dc, num)]

\* Mutant of append_number_to_data: the number is stored above an ARE field.
append_number_to_data_shifted(g, num) ==
    [g EXCEPT !.data = WriteWord(@, g.dc, num * Pow2(ARE_BITS)), !.dc = @ + 1]

append_number_to_data(g, num) ==
    [g EXCEPT !.data = WriteWord(@, g.dc, num), !.dc = @ + 1]

append_character_to_data(g, ch) ==
    [g EXCEPT !.data = WriteWord(@, g.dc, ch), !.dc = @ + 1]

\* Mutant of get_additional_word_count: two registers do not share a word.
get_additional_word_count_no_share(has_first, has_second, first_mode, second_mode) ==
    (IF has_first THEN 1 ELSE 0) + (IF has_second THEN 1 ELSE 0)

get_additional_word_count(has_first, has_second, first_mode, second_mode) ==
    (IF has_first THEN 1 ELSE 0) + (IF has_second THEN 1 ELSE 0)
    - (IF has_first /\ has_second /\ first_mode = REG_DIRECT_ADDR /\ second_mode = REG_DIRECT_ADDR
       THEN 1 ELSE 0)

\* Mutant of encode_first_op_word: a single operand fills the source field.
encode_first_op_word_single_src(op_type, has_first, has_second, first_mode, second_mode) ==
    encode_are(
        IF has_first /\ has_second
        THEN BitOr(BitOr(ShiftLeft(first_mode, OPCODE_BITS + ADDR_MODE_BITS),
                         ShiftLeft(op_type, ADDR_MODE_BITS)),
                   second_mode)
        ELSE IF has_first
        THEN BitOr(ShiftLeft(first_mode, OPCODE_BITS + ADDR_MODE_BITS),
                   ShiftLeft(op_type, ADDR_MODE_BITS))
        ELSE ShiftLeft(op_type, ADDR_MODE_BITS),
        ABSOLUTE)

encode_first_op_word(op_type, has_first, has_second, first_mode, second_mode) ==
    encode_are(
        IF has_first /\ has_second
        THEN BitOr(BitOr(ShiftLeft(first_mode, OPCODE_BITS + ADDR_MODE_BITS),
                         ShiftLeft(op_type, ADDR_MODE_BITS)),
                   second_mode)
        ELSE IF has_first THEN BitOr(ShiftLeft(op_type, ADDR_MODE_BITS), first_mode)
        ELSE ShiftLeft(op_type, ADDR_MODE_BITS),
        ABSOLUTE)

count_commas(str) ==
    IF str = NULL THEN 0 ELSE Cardinality({i \in 1..Len(str) : str[i] = ","})

RECURSIVE ConsecutiveCommasFrom(_, _)
ConsecutiveCommasFrom(str, comma_found) ==
    IF str = <<>> THEN FALSE
    ELSE IF Head(str) = "," /\ comma_found THEN TRUE
    ELSE IF Head(str) = "," THEN ConsecutiveCommasFrom(Tail(str), TRUE)
    ELSE IF ~isspace(Head(str)) THEN ConsecutiveCommasFrom(Tail(str), FALSE)
    ELSE ConsecutiveCommasFrom(Tail(str), comma_found)

has_consecutive_commas(str) == ConsecutiveCommasFrom(str, FALSE)

\* The operands of an operation as process_operation extracts them:
\* [err, has_first, has_second, first_operand, second_operand, rest], err the
\* error of the extraction ("" if none), rest the text after the operands.
extract_operands(op_type, line) ==
    With(count_commas(line), LAMBDA commas_cnt :
    With([err |-> "", has_first |-> FALSE, has_second |-> FALSE,
          first_operand |-> <<>>, second_operand |-> <<>>, rest |-> line], LAMBDA none :
        IF commas_cnt > OP_MAX_NUM_COMMAS THEN [none EXCEPT !.err = "OP_EXTRANEOUS_COMMA"]
        ELSE IF commas_cnt > 0
        THEN With(copy_next_token(line, SEP_COMMA), LAMBDA first :
             With(extract_remaining_seq(line, SEP_COMMA), LAMBDA l1 :
             With(Drop(l1, 1), LAMBDA l2 :
             With(copy_next_token(l2, SEP_BLANK), LAMBDA second :
                 IF is_empty(first) THEN [none EXCEPT !.err = "OP_MISSING_OPERAND"]
                 ELSE IF CharAt(l1) # "," THEN [none EXCEPT !.err = "OP_EXTRANEOUS_TEXT"]
                 ELSE IF is_empty(second) THEN [none EXCEPT !.err = "OP_MISSING_OPERAND"]
                 ELSE [err |-> "", has_first |-> TRUE, has_second |-> TRUE,
                       first_operand |-> first, second_operand |-> second,
                       rest |-> extract_remaining_seq(l2, SEP_BLANK)]))))
        ELSE With(copy_next_token(line, SEP_BLANK), LAMBDA first :
                 IF ~is_empty(first)
                 THEN [none EXCEPT !.has_first = TRUE, !.first_operand = first,
                                   !.rest = extract_remaining_seq(line, SEP_BLANK)]
                 ELSE IF op_type # RTS_OP /\ op_type # STOP_OP
                 THEN [none EXCEPT !.err = "OP_MISSING_OPERAND"]
                 ELSE [none EXCEPT !.rest = extract_remaining_seq(line, SEP_BLANK)])))

process_operation(g, op_type, line) ==
    With(extract_operands(op_type, line), LAMBDA x :
    With(IF x.has_first THEN detect_addr_mode(x.first_operand) ELSE NONE_ADDR, LAMBDA first_mode :
    With(IF x.has_second THEN detect_addr_mode(x.second_operand) ELSE NONE_ADDR, LAMBDA second_mode :
    With(print_errors(g,
             (IF x.has_first THEN detect_addr_mode_errs(x.first_operand) ELSE <<>>)
             \o (IF x.has_second THEN detect_addr_mode_errs(x.second_operand) ELSE <<>>)), LAMBDA g1 :
    With(append_word_to_code(g1,
             encode_first_op_word(op_type, x.has_first, x.has_second, first_mode, second_mode)), LAMBDA g2 :
        IF x.err # "" THEN Fail(print_error(g, x.err))
        ELSE IF ~is_empty(x.rest) THEN Fail(print_error(g, "OP_EXTRANEOUS_TEXT"))
        ELSE IF (x.has_first /\ first_mode = NONE_ADDR) \/ (x.has_second /\ second_mode = NONE_ADDR)
        THEN Fail(print_error(g1, "OP_INVALID_ADDR_MODE"))
        ELSE IF ~is_valid_operand_count(op_type, x.has_first, x.has_second)
        THEN Fail(print_error(g1, "OP_INVALID_OPERANDS_NUM"))
        ELSE IF ~is_valid_mode_combination(op_type, first_mode, second_mode)
        THEN Fail(print_error(g1, "OP_INVALID_OPERANDS_MODE"))
        ELSE Succeed([g2 EXCEPT !.ic = @ + get_additional_word_count(
                                    x.has_first, x.has_second, first_mode, second_mode)]))))))

\* The loop of process_data_dir from the current position of line.
RECURSIVE process_data_dir(_, _)
process_data_dir(g, line) ==
    IF is_empty(line) THEN Succeed(g)
    ELSE With(copy_next_token(line, SEP_COMMA), LAMBDA param :
         With(extract_remaining_seq(line, SEP_COMMA), LAMBDA l1 :
             IF ~is_number(param) THEN Fail(print_error(g, "DATA_NOT_NUM"))
             ELSE IF ~is_empty(l1) /\ CharAt(l1) # ","
             THEN Fail(print_error(g, "DATA_MISSING_COMMA"))
             ELSE IF CharAt(l1) = "," /\ is_empty(Drop(l1, 1))
             THEN Fail(print_error(g, "DATA_EXTRANEOUS_TEXT"))
             ELSE process_data_dir(append_number_to_data(g, atoi(param)),
                                   IF ~is_empty(l1) THEN Drop(l1, 1) ELSE l1)))

RECURSIVE AppendCharacters(_, _)
AppendCharacters(g, chars) ==
    IF chars = <<>> THEN g
    ELSE AppendCharacters(append_character_to_data(g, CharCode(Head(chars))), Tail(chars))

process_string_dir(g, line) ==
    With(copy_next_token(trim_end_whitespaces(line), SEP_NONE), LAMBDA param :
        IF ~is_string(param) THEN Fail(print_error(g, "STRING_NOT_STR"))
        ELSE Succeed(append_character_to_data(
                 AppendCharacters(g, SubSeq(param, 2, Len(param) - 1)), 0)))

process_entry_dir(g, line) ==
    With(copy_next_token(line, SEP_BLANK), LAMBDA param :
        IF is_empty(param) THEN Fail(print_error(g, "ENTRY_MISSING_SYMBOL"))
        ELSE IF ~is_symbol(param, FALSE) THEN Fail(print_errors(g, is_symbol_errs(param, FALSE)))
        ELSE IF ~is_empty(extract_remaining_seq(line, SEP_BLANK))
        THEN Fail(print_error(g, "ENTRY_EXTRANEOUS_TEXT"))
        ELSE Succeed(g))

process_extern_dir(g, line) ==
    With(copy_next_token(line, SEP_BLANK), LAMBDA param :
    With(add_symbol_to_list(g, param, DEFAULT_ADDR, TRUE), LAMBDA added :
        IF is_empty(param) THEN Fail(print_error(g, "EXTERN_MISSING_SYMBOL"))
        ELSE IF ~is_symbol(param, FALSE) THEN Fail(print_errors(g, is_symbol_errs(param, FALSE)))
        ELSE IF ~is_empty(extract_remaining_seq(line, SEP_BLANK))
        THEN Fail(print_error(g, "EXTERN_EXTRANEOUS_TEXT"))
        ELSE IF added.sym = 0 THEN Fail(added.g)
        ELSE Succeed(added.g)))

process_directive(g, dir_type, line) ==
    IF is_empty(line) THEN Fail(print_error(g, "DIR_MISSING_PARAMS"))
    ELSE IF dir_type = DATA THEN process_data_dir(g, line)
    ELSE IF dir_type = STRING_DIR THEN process_string_dir(g, line)
    ELSE IF dir_type = ENTRY THEN process_entry_dir(g, line)
    ELSE IF dir_type = EXTERN THEN process_extern_dir(g, line)
    ELSE Fail(g)

\* delete_symbol(&symbol_table, current_symbol->name) under "if (is_symbol_exists)";
\* current_symbol is the index of the label's symbol, 0 when there is none.
DeleteLabel(g, current_symbol) ==
    IF current_symbol # 0
    THEN [g EXCEPT !.symbol_table = delete_symbol(@, @[current_symbol].name)]
    ELSE g

\* current_symbol->type = type; current_symbol->address = address;
SetLabel(g, current_symbol, type, address) ==
    IF current_symbol # 0
    THEN [g EXCEPT !.symbol_table[current_symbol].type = type,
                   !.symbol_table[current_symbol].address = address]
    ELSE g

\* The checks of parse_line on the text after the operation or directive name
\* (lines 131-153 and 166-188), around the result r of processing it; label
\* is the symbol to delete on failure.
CheckedStatement(g1, l1, label, r) ==
    IF CharAt(l1) = ","
    THEN Fail(print_error(DeleteLabel(g1, label), "ILLEGAL_COMMA"))
    ELSE IF has_consecutive_commas(l1)
    THEN Fail(print_error(DeleteLabel(g1, label), "CONSECUTIVE_COMMAS"))
    ELSE IF ~r.ok THEN Fail(DeleteLabel(r.g, label))
    ELSE r

\* parse_line from the classification of current_token on (lines 125-203).
parse_statement(g, line, current_token, current_symbol) ==
    With(find_operation(current_token), LAMBDA op_val :
    With(find_directive(current_token), LAMBDA dir_val :
    With(extract_remaining_seq(line, SEP_COMMA), LAMBDA l1 :
        IF op_val # NONE_OP
        THEN With(SetLabel(g, current_symbol, INSTRUCTION, g.ic), LAMBDA g1 :
                 CheckedStatement(g1, l1, current_symbol, process_operation(g1, op_val, l1)))
        ELSE IF dir_val # NONE_DIR
        THEN With(dir_val = EXTERN \/ dir_val = ENTRY, LAMBDA skip :
             With(IF skip THEN DeleteLabel(g, current_symbol)
                  ELSE SetLabel(g, current_symbol, DIRECTIVE, g.dc), LAMBDA g1 :
                 CheckedStatement(g1, l1, IF skip THEN 0 ELSE current_symbol,
                                  process_directive(g1, dir_val, l1))))
        ELSE Fail(print_error(DeleteLabel(g, current_symbol), "UNDEFINED_OP_DIR")))))

\* Returns [ok, g]: ok is parse_line's return value.
parse_line(g, line) ==
    With(copy_next_token(line, SEP_LABEL), LAMBDA token :
    With(print_errors(g, is_symbol_errs(token, TRUE)), LAMBDA g0 :
    With(add_symbol_to_list(g0, SubSeq(token, 1, Len(token) - 1), DEFAULT_ADDR, FALSE), LAMBDA added :
    With(extract_remaining_seq(line, SEP_COLON), LAMBDA l1 :
        IF is_symbol(token, TRUE)
        THEN IF added.sym = 0 THEN Fail(added.g)
             ELSE IF is_empty(l1)
             THEN Fail(print_error(DeleteLabel(added.g, added.sym), "SYMBOL_ONLY"))
             ELSE parse_statement(added.g, l1, copy_next_token(l1, SEP_COMMA), added.sym)
        ELSE parse_statement(g0, line, token, 0)))))

\* ------------------------------------------------------------------------
\* second_pass.c
\* ------------------------------------------------------------------------
determine_operand(op_type) ==
    IF op_type \in {MOV_OP, CMP_OP, ADD_OP, SUB_OP, LEA_OP}
    THEN [has_src |-> TRUE, has_dest |-> TRUE]
    ELSE IF op_type \in {NOT_OP, CLR_OP, INC_OP, DEC_OP, JMP_OP, BNE_OP, RED_OP, PRN_OP, JSR_OP}
    THEN [has_src |-> FALSE, has_dest |-> TRUE]
    ELSE [has_src |-> FALSE, has_dest |-> FALSE]

\* reg + SKIP_TO_NUM_REG lies beyond the terminator of an operand shorter than
\* two characters: atoi then reads what the buffer held before, junk.
encode_reg(reg, is_dest, junk) ==
    With(IF Len(reg) >= SKIP_TO_NUM_REG THEN atoi(Drop(reg, SKIP_TO_NUM_REG)) ELSE junk,
         LAMBDA register_num :
        encode_are(IF ~is_dest THEN ShiftLeft(register_num, BITS_IN_REG) ELSE register_num,
                   ABSOLUTE))

\* Mutant of encode_symbol: a symbol that is not found takes no word.
encode_symbol_no_placeholder(g, symbol_name) ==
    With(get_symbol_addr(g.symbol_table, symbol_name), LAMBDA word :
        IF is_existing_symbol(g.symbol_table, symbol_name)
        THEN IF is_extern_symbol(g.symbol_table, symbol_name)
             THEN Succeed(append_word_to_code(
                      [g EXCEPT !.ext_table = add_ext_to_list(@, symbol_name, g.ic + MEM_START)],
                      encode_are(word, EXTERNAL)))
             ELSE Succeed(append_word_to_code(g, encode_are(word, RELOCATABLE)))
        ELSE Fail(print_error(g, "SYMBOL_NOT_FOUND")))

encode_symbol(g, symbol_name) ==
    With(get_symbol_addr(g.symbol_table, symbol_name), LAMBDA word :
        IF is_existing_symbol(g.symbol_table, symbol_name)
        THEN IF is_extern_symbol(g.symbol_table, symbol_name)
             THEN Succeed(append_word_to_code(
                      [g EXCEPT !.ext_table = add_ext_to_list(@, symbol_name, g.ic + MEM_START)],
                      encode_are(word, EXTERNAL)))
             ELSE Succeed(append_word_to_code(g, encode_are(word, RELOCATABLE)))
        ELSE Fail(print_error([g EXCEPT !.ic = @ + 1], "SYMBOL_NOT_FOUND")))

encode_operand_to_code(g, operand, addr_mode, is_dest, junk) ==
    IF addr_mode = IMMEDIATE_ADDR
    THEN Succeed(append_word_to_code(g, encode_are(atoi(operand), ABSOLUTE)))
    ELSE IF addr_mode = DIRECT_ADDR THEN encode_symbol(g, operand)
    ELSE IF addr_mode = REG_DIRECT_ADDR
    THEN Succeed(append_word_to_code(g, encode_reg(operand, is_dest, junk)))
    ELSE Fail(g)

encode_additional_words(g, src, dest, has_src, has_dest, src_mode, dest_mode, junk) ==
    IF has_src /\ has_dest /\ src_mode = REG_DIRECT_ADDR /\ dest_mode = REG_DIRECT_ADDR
    THEN Succeed(append_word_to_code(g,
             BitOr(encode_reg(src, FALSE, junk), encode_reg(dest, TRUE, junk))))
    ELSE IF has_dest
    THEN IF has_src
         THEN With(encode_operand_to_code(g, src, src_mode, FALSE, junk), LAMBDA s :
              With(encode_operand_to_code(s.g, dest, dest_mode, TRUE, junk), LAMBDA d :
                  [ok |-> d.ok /\ s.ok, g |-> d.g]))
         ELSE encode_operand_to_code(g, dest, dest_mode, TRUE, junk)
    ELSE Succeed(g)

\* The operands as process_operation_second_pass extracts them: [crash, src, dest].
\* After the source operand the code steps over one character without looking at
\* it: from a null pointer (no operand at all) the next read faults; from the
\* terminator of the line it reads what the line buffer held before, junk_token.
extract_operands_second_pass(has_src, has_dest, line, junk_token) ==
    IF has_dest /\ has_src
    THEN With(extract_remaining_seq(line, SEP_COMMA), LAMBDA l1 :
             IF l1 = NULL THEN [crash |-> TRUE, src |-> <<>>, dest |-> <<>>]
             ELSE [crash |-> FALSE, src |-> copy_next_token(line, SEP_COMMA),
                   dest |-> IF l1 = <<>> THEN junk_token
                            ELSE copy_next_token(Drop(l1, 1), SEP_BLANK)])
    ELSE IF has_dest
    THEN [crash |-> FALSE, src |-> <<>>, dest |-> copy_next_token(line, SEP_BLANK)]
    ELSE [crash |-> FALSE, src |-> <<>>, dest |-> <<>>]

\* Returns [ok, g, crash].
process_operation_second_pass(g, op_type, line, junk, junk_token) ==
    With(determine_operand(op_type), LAMBDA has :
    With(IF has.has_src
         THEN extract_bits(ReadWord(g.code, g.ic), SRC_MODE_START_POS, SRC_MODE_END_POS)
         ELSE NONE_ADDR, LAMBDA src_addr_mode :
    With(IF has.has_dest
         THEN extract_bits(ReadWord(g.code, g.ic), DEST_MODE_START_POS, DEST_MODE_END_POS)
         ELSE NONE_ADDR, LAMBDA dest_addr_mode :
    With(extract_operands_second_pass(has.has_src, has.has_dest, line, junk_token), LAMBDA x :
    With(encode_additional_words([g EXCEPT !.ic = @ + 1], x.src, x.dest,
             has.has_src, has.has_dest, src_addr_mode, dest_addr_mode, junk), LAMBDA r :
        IF x.crash THEN [ok |-> FALSE, g |-> g, crash |-> TRUE]
        ELSE [ok |-> r.ok, g |-> r.g, crash |-> FALSE])))))

\* Returns [ok, g, crash].
parse_line_second_pass(g, line, junk, junk_token) ==
    With(copy_next_token(line, SEP_LABEL), LAMBDA token :
    With(is_symbol(token, TRUE), LAMBDA is_label :
    With(print_errors(g, is_symbol_errs(token, TRUE)), LAMBDA g0 :
    With(IF is_label THEN extract_remaining_seq(line, SEP_COLON) ELSE line, LAMBDA l1 :
    With(IF is_label THEN copy_next_token(l1, SEP_COMMA) ELSE token, LAMBDA current_token :
    With(find_operation(current_token), LAMBDA op_val :
    With(find_directive(current_token), LAMBDA dir_val :
    With(extract_remaining_seq(l1, SEP_COMMA), LAMBDA l2 :
        IF op_val # NONE_OP THEN process_operation_second_pass(g0, op_val, l2, junk, junk_token)
        ELSE IF dir_val # NONE_DIR /\ dir_val = ENTRY
        THEN With(make_entry(g0, copy_next_token(l2, SEP_BLANK)), LAMBDA e :
                 [ok |-> e.ok, g |-> e.g, crash |-> FALSE])
        ELSE [ok |-> TRUE, g |-> g0, crash |-> FALSE]))))))))

\* ------------------------------------------------------------------------
\* output_files.c
\* ------------------------------------------------------------------------
BASE64_ENCODED_STRING_SIZE == 2
FIRST_HALF_START == 0
FIRST_HALF_END == 5
SECOND_HALF_START == 6
SECOND_HALF_END == 11

base64_table ==
    <<"A", "B", "C", "D", "E", "F", "G", "H", "I", "J", "K", "L", "M", "N", "O", "P",
      "Q", "R", "S", "T", "U", "V", "W", "X", "Y", "Z", "a", "b", "c", "d", "e", "f",
      "g", "h", "i", "j", "k", "l", "m", "n", "o", "p", "q", "r", "s", "t", "u", "v",
      "w", "x", "y", "z", "0", "1", "2", "3", "4", "5", "6", "7", "8", "9", "+", "/">>

\* Mutant of convert_to_base64: the halves of the word change places.
convert_to_base64_swapped(word) ==
    << base64_table[extract_bits(word, FIRST_HALF_START, FIRST_HALF_END) + 1],
       base64_table[extract_bits(word, SECOND_HALF_START, SECOND_HALF_END) + 1] >>

convert_to_base64(word) ==
    << base64_table[extract_bits(word, SECOND_HALF_START, SECOND_HALF_END) + 1],
       base64_table[extract_bits(word, FIRST_HALF_START, FIRST_HALF_END) + 1] >>

\* printf's "%d"
RECURSIVE FormatNat(_)
FormatNat(n) ==
    IF n < 10 THEN <<Digits[n + 1]>>
    ELSE FormatNat(n \div 10) \o <<Digits[(n % 10) + 1]>>

FormatInt(n) == IF n < 0 THEN <<"-">> \o FormatNat(0 - n) ELSE FormatNat(n)

\* Mutant of create_ent_file: a line for every symbol of the table.
create_ent_file_all(table) ==
    [i \in 1..Len(table) |->
        table[i].name \o <<"\t">> \o FormatInt(table[i].address) \o <<"\n">>]

\* The lines "%s\t%d\n" of the entries file
RECURSIVE create_ent_file(_)
create_ent_file(table) ==
    IF table = <<>> THEN <<>>
    ELSE (IF Head(table).is_ent
          THEN << Head(table).name \o <<"\t">> \o FormatInt(Head(table).address) \o <<"\n">> >>
          ELSE <<>>)
         \o create_ent_file(Tail(table))

\* The lines "%s\t%d\n" of the externals file
create_ext_file(table) ==
    [i \in 1..Len(table) |->
        table[i].name \o <<"\t">> \o FormatInt(table[i].address) \o <<"\n">>]

\* The lines of the object file: "%d\t%d\n", then one line for each word
create_ob_file(n_ic, n_dc, code_arr, data_arr) ==
    << FormatInt(n_ic) \o <<"\t">> \o FormatInt(n_dc) \o <<"\n">> >>
    \o [i \in 1..(n_ic + n_dc) |->
           (IF i - 1 < n_ic THEN convert_to_base64(ReadWord(code_arr, i - 1))
            ELSE convert_to_base64(ReadWord(data_arr, i - 1 - n_ic)))
           \o <<"\n">>]

\* The files written: NULL for a file that is not created.
create_output_files(n_ic, n_dc, code_arr, data_arr, symbols, exts, entry_exists, extern_exists) ==
    [ob |-> create_ob_file(n_ic, n_dc, code_arr, data_arr),
     ent |-> IF entry_exists THEN create_ent_file(symbols) ELSE NULL,
     ext |-> IF extern_exists THEN create_ext_file(exts) ELSE NULL]

\* ------------------------------------------------------------------------
\* pre_asm.c: the macro preprocessor. The locals of pre_process are passed
\* along as a record m: the macro table (a linked list, as a sequence in list
\* order), current_macro (an index into it, 0 for NULL), is_inside_macro,
\* success, the lines written to the .am file and the errors printed.
\* ------------------------------------------------------------------------
MAX_MCR_LEN == 31

S_mcro == <<"m", "c", "r", "o">>
S_endmcro == <<"e", "n", "d", "m", "c", "r", "o">>

\* strncmp(str, prefix, strlen(prefix)) == 0
StartsWith(str, prefix) ==
    Len(str) >= Len(prefix) /\ SubSeq(str, 1, Len(prefix)) = prefix

RECURSIVE SkipSpaces(_)
SkipSpaces(str) ==
    IF str # <<>> /\ Head(str) = " " THEN SkipSpaces(Tail(str)) ELSE str

\* strtok(str, " "): the first token of str, NULL when str holds only spaces
strtok(str) ==
    With(SkipSpaces(str), LAMBDA s :
        IF s = <<>> THEN NULL ELSE SubSeq(s, 1, TokenEnd(s, {" "})))

\* What strtok(NULL, " ") scans after strtok(str, " ") returned a token
strtok_rest(str) ==
    With(SkipSpaces(str), LAMBDA s : Drop(s, TokenEnd(s, {" "})))

create_macro(name) == [name |-> name, lines |-> <<>>]

add_macro_to_list(head, name) == Append(head, create_macro(name))

add_line_to_macro(head, macro, line) ==
    [head EXCEPT ![macro].lines = Append(@, line)]

\* The first macro of that name, 0 when there is none
find_macro(macro_table, name) ==
    IF \E i \in 1..Len(macro_table) : macro_table[i].name = name
    THEN CHOOSE i \in 1..Len(macro_table) :
             /\ macro_table[i].name = name
             /\ \A j \in 1..(i - 1) : macro_table[j].name # name
    ELSE 0

\* Mutant of expand_macro: nothing is written for an invocation.
expand_macro_nothing(output_file, macro_table, macro_name) == output_file

\* Mutant of expand_macro: the lines are written last to first.
expand_macro_reversed(output_file, macro_table, macro_name) ==
    output_file \o [i \in 1..Len(macro_table[find_macro(macro_table, macro_name)].lines) |->
        macro_table[find_macro(macro_table, macro_name)].lines[
            Len(macro_table[find_macro(macro_table, macro_name)].lines) + 1 - i]]

expand_macro(output_file, macro_table, macro_name) ==
    output_file \o macro_table[find_macro(macro_table, macro_name)].lines

\* The error is_macro prints, if any
is_macro_errs(token) ==
    IF Len(token) > MAX_MCR_LEN THEN <<"MCR_TOO_LONG">>
    ELSE IF is_register(token) THEN <<"MCR_CANNOT_BE_REG">>
    ELSE IF find_operation(token) # NONE_OP THEN <<"MCR_CANNOT_BE_OP">>
    ELSE IF find_directive(token) # NONE_DIR THEN <<"MCR_CANNOT_BE_DIR">>
    ELSE <<>>

is_macro(token) == is_macro_errs(token) = <<>>

\* Mutant of Break: the loop goes on after the error.
Break_goes_on(m) == m

\* success = FALSE; break
Break(m) == [m EXCEPT !.success = FALSE]

\* Mutant of pre_process_line: a line that is no macro is written trimmed.
pre_process_line_trimmed(m, line) ==
    With(trim_whitespaces(line), LAMBDA trimmed_line :
    IF StartsWith(trimmed_line, S_mcro)
    THEN With(strtok(Drop(trimmed_line, Len(S_mcro))), LAMBDA token :
         IF token = NULL THEN Break(print_error(m, "MCR_MISSING_NAME"))
         ELSE IF strtok(strtok_rest(Drop(trimmed_line, Len(S_mcro)))) # NULL
         THEN Break(print_error(m, "MCR_MCRO_EXTRANEOUS_TEXT"))
         ELSE IF is_macro(token)
         THEN [m EXCEPT !.macro_table = add_macro_to_list(@, token),
                        !.current_macro = Len(m.macro_table) + 1,
                        !.is_inside_macro = TRUE]
         ELSE Break(print_errors(m, is_macro_errs(token))))
    ELSE IF m.is_inside_macro /\ StartsWith(trimmed_line, S_endmcro)
    THEN IF strtok(Drop(trimmed_line, Len(S_endmcro))) # NULL
         THEN Break(print_error(m, "MCR_ENDMCRO_EXTRANEOUS_TEXT"))
         ELSE [m EXCEPT !.current_macro = 0, !.is_inside_macro = FALSE]
    ELSE IF m.is_inside_macro
    THEN [m EXCEPT !.macro_table = add_line_to_macro(@, m.current_macro, line)]
    ELSE IF find_macro(m.macro_table, trimmed_line) # 0
    THEN [m EXCEPT !.out = expand_macro(@, m.macro_table, trimmed_line)]
    ELSE [m EXCEPT !.out = Append(@, trimmed_line)])

\* One turn of the loop of pre_process on the line fgets has read
pre_process_line(m, line) ==
    With(trim_whitespaces(line), LAMBDA trimmed_line :
    IF StartsWith(trimmed_line, S_mcro)
    THEN With(strtok(Drop(trimmed_line, Len(S_mcro))), LAMBDA token :
         IF token = NULL THEN Break(print_error(m, "MCR_MISSING_NAME"))
         ELSE IF strtok(strtok_rest(Drop(trimmed_line, Len(S_mcro)))) # NULL
         THEN Break(print_error(m, "MCR_MCRO_EXTRANEOUS_TEXT"))
         ELSE IF is_macro(token)
         THEN [m EXCEPT !.macro_table = add_macro_to_list(@, token),
                        !.current_macro = Len(m.macro_table) + 1,
                        !.is_inside_macro = TRUE]
         ELSE Break(print_errors(m, is_macro_errs(token))))
    ELSE IF m.is_inside_macro /\ StartsWith(trimmed_line, S_endmcro)
    THEN IF strtok(Drop(trimmed_line, Len(S_endmcro))) # NULL
         THEN Break(print_error(m, "MCR_ENDMCRO_EXTRANEOUS_TEXT"))
         ELSE [m EXCEPT !.current_macro = 0, !.is_inside_macro = FALSE]
    ELSE IF m.is_inside_macro
    THEN [m EXCEPT !.macro_table = add_line_to_macro(@, m.current_macro, line)]
    ELSE IF find_macro(m.macro_table, trimmed_line) # 0
    THEN [m EXCEPT !.out = expand_macro(@, m.macro_table, trimmed_line)]
    ELSE [m EXCEPT !.out = Append(@, line)])

\* ------------------------------------------------------------------------
\* The expanded source (.am) files explored: every sequence of at most
\* MaxLines lines of one of the Programs.
\* ------------------------------------------------------------------------
MaxLines == 3

\* The most files on a command line
MaxFiles == 3

N_EXT == <<"E", "X", "T">>
N_A == <<"A">>
N_B == <<"B">>
N_C == <<"C">>

\* mov @r3, @r4
L_mov_regs == <<"m", "o", "v", " ", "@", "r", "3", ",", " ", "@", "r", "4">>
\* <tab>stop
L_stop == <<"\t", "s", "t", "o", "p">>
\* jmp EXT
L_jmp_EXT == <<"j", "m", "p", " ", "E", "X", "T">>
\* .extern EXT
L_extern_EXT == <<".", "e", "x", "t", "e", "r", "n", " ", "E", "X", "T">>
\* A: jmp B
L_A_jmp_B == <<"A", ":", " ", "j", "m", "p", " ", "B">>
\* B: .data 7, -5
L_B_data == <<"B", ":", " ", ".", "d", "a", "t", "a", " ", "7", ",", " ", "-", "5">>
\* mov EXT, A
L_mov_EXT_A == <<"m", "o", "v", " ", "E", "X", "T", ",", " ", "A">>
\* A: .data 1, x
L_A_data_bad == <<"A", ":", " ", ".", "d", "a", "t", "a", " ", "1", ",", " ", "x">>
\* A: mov @r1
L_A_mov_one == <<"A", ":", " ", "m", "o", "v", " ", "@", "r", "1">>
\* foo
L_foo == <<"f", "o", "o">>
\* C: .string "ab"
L_C_string == <<"C", ":", " ", ".", "s", "t", "r", "i", "n", "g", " ", "\"", "a", "b", "\"">>
\* .entry A
L_entry_A == <<".", "e", "n", "t", "r", "y", " ", "A">>
\* A: .extern EXT
L_A_extern_EXT == <<"A", ":", " ", ".", "e", "x", "t", "e", "r", "n", " ", "E", "X", "T">>
\* prn -1
L_prn_imm == <<"p", "r", "n", " ", "-", "1">>
\* ; c
L_comment == <<";", " ", "c">>
\* A:
L_A_only == <<"A", ":">>
\* .extern A
L_extern_A == <<".", "e", "x", "t", "e", "r", "n", " ", "A">>
\* inc 5
L_inc_imm == <<"i", "n", "c", " ", "5">>
\* mov
L_mov_none == <<"m", "o", "v">>

\* mov B, A
L_mov_B_A == <<"m", "o", "v", " ", "B", ",", " ", "A">>

\* Lines of programs that lay out code and data
P_layout == {L_mov_regs, L_stop, L_A_jmp_B, L_B_data, L_C_string, L_mov_B_A, L_comment}

\* Lines of programs with external and entry symbols
P_extern == {L_extern_EXT, L_jmp_EXT, L_stop, L_mov_EXT_A, L_entry_A, L_extern_A,
             L_A_extern_EXT}

\* Lines of programs with lines that pass 1 rejects
P_errors == {L_A_data_bad, L_A_mov_one, L_foo, L_A_only, L_inc_imm, L_mov_none,
             L_B_data, L_prn_imm}

Programs == {P_layout, P_extern, P_errors}

Lines == UNION Programs

\* fgets stores the line with its newline.
WithNewline(text) == text \o <<"\n">>

\* The file read so far, followed by text, is made of lines of one program.
SameProgram(read, text) ==
    \E p \in Programs :
        /\ text \in p
        /\ \A i \in 1..Len(read) : \E l \in p : read[i] = WithNewline(l)

\* ------------------------------------------------------------------------
\* The source (.as) files explored: the example files, every file that
\* starts as one of them, and every sequence of at most MaxLines lines of
\* P_source.
\* ------------------------------------------------------------------------
N_X == <<"X">>
N_Y == <<"Y">>
N_LIST == <<"L", "I", "S", "T">>
N_STR == <<"S", "T", "R">>

\* mcro INIT
L_mcro_INIT ==
    <<"m", "c", "r", "o", " ", "I", "N", "I", "T">>
\* mov #0, @r1
L_mov_hash ==
    <<"m", "o", "v", " ", "#", "0", ",", " ", "@", "r", "1">>
\* endmcro
L_endmcro ==
    <<"e", "n", "d", "m", "c", "r", "o">>
\* INIT
L_INIT ==
    <<"I", "N", "I", "T">>
\* X: .data 1
L_X_data ==
    <<"X", ":", " ", ".", "d", "a", "t", "a", " ", "1">>
\* .entry X
L_entry_X ==
    <<".", "e", "n", "t", "r", "y", " ", "X">>
\* .extern X
L_extern_X ==
    <<".", "e", "x", "t", "e", "r", "n", " ", "X">>
\* Y: stop
L_Y_stop ==
    <<"Y", ":", " ", "s", "t", "o", "p">>
\* .entry Y
L_entry_Y ==
    <<".", "e", "n", "t", "r", "y", " ", "Y">>
\* jmp X
L_jmp_X ==
    <<"j", "m", "p", " ", "X">>
\* mcro stop
L_mcro_stop ==
    <<"m", "c", "r", "o", " ", "s", "t", "o", "p">>
\* LIST: .data 7, -57, +17
L_LIST_data ==
    <<"L", "I", "S", "T", ":", " ", ".", "d", "a", "t", "a", " ", "7", ",", " ", "-", "5", "7", ",", " ", "+", "1", "7">>
\* STR: .string "ab"
L_STR_string ==
    <<"S", "T", "R", ":", " ", ".", "s", "t", "r", "i", "n", "g", " ", "\"", "a", "b", "\"">>
\* A: add 5, @r2
L_A_add ==
    <<"A", ":", " ", "a", "d", "d", " ", "5", ",", " ", "@", "r", "2">>

\* mcro
L_mcro ==
    <<"m", "c", "r", "o">>
\* mcro INIT x
L_mcro_INIT_x ==
    <<"m", "c", "r", "o", " ", "I", "N", "I", "T", " ", "x">>
\* endmcro x
L_endmcro_x ==
    <<"e", "n", "d", "m", "c", "r", "o", " ", "x">>

\*  INIT  (the name of a macro between blanks)
L_INIT_blanks ==
    <<" ", " ", "I", "N", "I", "T", " ">>

\* A macro defined and invoked twice
E_macro == <<L_mcro_INIT, L_mov_hash, L_endmcro, L_INIT, L_INIT, L_stop>>
\* The same symbol declared an entry twice
E_entry_twice == <<L_X_data, L_entry_X, L_entry_X>>
\* Two entries declared in the reverse of the order of their definitions
E_entry_order == <<L_Y_stop, L_X_data, L_entry_X, L_entry_Y>>
\* Numbers and a string
E_data == <<L_LIST_data, L_STR_string>>
\* A label defined again after the line that defined it was rejected
E_errors == <<L_A_mov_one, L_A_add, L_foo>>

\* A mcro line without a name, after a line that was written to the .am file
E_mcro_no_name == <<L_X_data, L_mcro, L_jmp_X>>
\* A mcro line with text after the name
E_mcro_extra == <<L_mcro_INIT_x, L_stop>>
\* An endmcro line with text after it
E_endmcro_extra == <<L_mcro_INIT, L_stop, L_endmcro_x, L_stop>>
\* A macro of two lines, invoked after a line that is no macro
E_macro_body == <<L_mcro_INIT, L_jmp_X, L_stop, L_endmcro, L_X_data, L_INIT_blanks>>
\* The same macro name defined twice
E_macro_again == <<L_mcro_INIT, L_stop, L_endmcro, L_mcro_INIT, L_jmp_X, L_endmcro, L_INIT>>

Examples == {E_macro, E_entry_twice, E_entry_order, E_data, E_errors, E_mcro_no_name,
             E_mcro_extra, E_endmcro_extra, E_macro_body, E_macro_again}

\* Lines of programs with entries, externals, undefined symbols and lines
\* that the preprocessor or pass 1 rejects
P_source == {L_X_data, L_entry_X, L_extern_X, L_jmp_X, L_mcro_stop, L_endmcro, L_foo}

SourceLines == P_source \cup UNION {{e[i] : i \in 1..Len(e)} : e \in Examples}

\* The file read so far, followed by text, starts an example file or is made
\* of at most MaxLines lines of P_source.
SourceNext(read, text) ==
    \/ \E e \in Examples :
           /\ Len(read) < Len(e)
           /\ text = e[Len(read) + 1]
           /\ \A i \in 1..Len(read) : read[i] = WithNewline(e[i])
    \/ /\ Len(read) < MaxLines
       /\ text \in P_source
       /\ \A i \in 1..Len(read) : \E l \in P_source : read[i] = WithNewline(l)

\* What a read beyond the terminator of a string may find in the buffer.
JunkInts == {0, 3}
JunkTokens == {<<>>, N_A}

\* ------------------------------------------------------------------------
\* The run of main for one file. Spec starts where preprocessing has
\* succeeded and explores the .am files; SpecSource starts at pre_process and
\* explores the .as files.
\* ------------------------------------------------------------------------
VARIABLES
    am,                \* the lines of the .am file read so far, each with its "\n"
    pc,                \* "first_pass", "first_done", "second_pass", "done", "crashed"
    ic, dc, line_num,  \* the global counters
    code, data,        \* the global arrays
    symbol_table, ext_table,
    is_entry_exists, is_extern_exists,
    first_error,       \* was_error of first_process
    second_error,      \* was_error of second_process
    err_log,           \* the errors printed: [pass, line, err]
    files,             \* the output files written: [ob, ent, ext]
    hist,              \* history: for each line of pass 1, [ic, dc] before it, ok, ignored
    before,            \* history: code, data and symbol_table before the last line of pass 1
    final_ic,          \* history: ic when first_process returned
    as_read,           \* the lines of the .as file read so far, each with its "\n"
    macro_table, current_macro, is_inside_macro,   \* the locals of pre_process
    pre_success,       \* success of pre_process
    am_file,           \* the lines pre_process wrote to the .am file, NULL once removed
    b64_word, b64_string,  \* a word and the string convert_to_base64 returned for it
    argv,              \* the source files main has taken from its command line so far
    outputs,           \* the artifacts main's loop left for each earlier file of argv
    op_type, op_line,  \* an opcode and the operand text handed to process_operation
    op_result          \* <<what process_operation returned for them>>, <<>> before the call

vars == <<am, pc, ic, dc, line_num, code, data, symbol_table, ext_table,
          is_entry_exists, is_extern_exists, first_error, second_error, err_log,
          files, hist, before, final_ic, as_read, macro_table, current_macro,
          is_inside_macro, pre_success, am_file, b64_word, b64_string,
          argv, outputs, op_type, op_line, op_result>>

pre_vars == <<as_read, macro_table, current_macro, is_inside_macro, pre_success, am_file>>

b64_vars == <<b64_word, b64_string>>

run_vars == <<argv, outputs>>

op_vars == <<op_type, op_line, op_result>>

NoFiles == [ob |-> NULL, ent |-> NULL, ext |-> NULL]

Logged(pass, errs) ==
    [i \in 1..Len(errs) |-> [pass |-> pass, line |-> line_num, err |-> errs[i]]]

\* first_process, lines 41-48, on the zero-initialised globals of main.c
Init ==
    /\ am = <<>>
    /\ pc = "first_pass"
    /\ ic = 0
    /\ dc = 0
    /\ line_num = 1
    /\ code = <<>>
    /\ data = <<>>
    /\ symbol_table = <<>>
    /\ ext_table = <<>>
    /\ is_entry_exists = FALSE
    /\ is_extern_exists = FALSE
    /\ first_error = FALSE
    /\ second_error = FALSE
    /\ err_log = <<>>
    /\ files = NoFiles
    /\ hist = <<>>
    /\ before = [code |-> <<>>, data |-> <<>>, symbol_table |-> <<>>]
    /\ final_ic = 0
    /\ as_read = <<>>
    /\ macro_table = <<>>
    /\ current_macro = 0
    /\ is_inside_macro = FALSE
    /\ pre_success = TRUE
    /\ am_file = <<>>
    /\ b64_word = 0
    /\ b64_string = NULL
    /\ argv = <<>>
    /\ outputs = <<>>
    /\ op_type = NONE_OP
    /\ op_line = <<>>
    /\ op_result = <<>>

\* One turn of the loop of first_process on the line fgets has read.
first_process_line(read) ==
    /\ pc = "first_pass"
    /\ LET line == trim_whitespaces(read)
           g == [ic |-> ic, dc |-> dc, code |-> code, data |-> data,
                 symbol_table |-> symbol_table, is_extern_exists |-> is_extern_exists,
                 errs |-> <<>>]
           r == IF should_ignore(line) THEN Succeed(g) ELSE parse_line(g, line)
       IN  /\ am' = Append(am, read)
           /\ ic' = r.g.ic
           /\ dc' = r.g.dc
           /\ code' = r.g.code
           /\ data' = r.g.data
           /\ symbol_table' = r.g.symbol_table
           /\ is_extern_exists' = r.g.is_extern_exists
           /\ first_error' = (first_error \/ ~r.ok)
           /\ err_log' = err_log \o Logged(1, r.g.errs)
           /\ hist' = Append(hist, [ic |-> ic, dc |-> dc, ok |-> r.ok,
                                    ignored |-> should_ignore(line)])
    /\ before' = [code |-> code, data |-> data, symbol_table |-> symbol_table]
    /\ line_num' = line_num + 1
    /\ UNCHANGED <<pc, ext_table, is_entry_exists, second_error, files, final_ic>>
    /\ UNCHANGED <<pre_vars, b64_vars, run_vars, op_vars>>

\* fgets reads the next line of the .am file.
FirstPassLine(text) ==
    /\ Len(am) < MaxLines
    /\ SameProgram(am, text)
    /\ first_process_line(WithNewline(text))

\* fgets finds the end of the file: first_process, lines 75-83.
FirstPassEnd ==
    /\ pc = "first_pass"
    /\ symbol_table' = update_symbol_addr(update_symbol_addr(symbol_table, MEM_START, INSTRUCTION),
                                          ic + MEM_START, DIRECTIVE)
    /\ final_ic' = ic
    /\ pc' = "first_done"
    /\ UNCHANGED <<am, ic, dc, line_num, code, data, ext_table, is_entry_exists,
                   is_extern_exists, first_error, second_error, err_log, files, hist, before>>
    /\ UNCHANGED <<pre_vars, b64_vars, run_vars, op_vars>>

\* main calls second_process whether or not the first pass failed:
\* second_process, lines 39-43.
SecondPassBegin ==
    /\ pc = "first_done"
    /\ ic' = 0
    /\ line_num' = 1
    /\ ext_table' = <<>>
    /\ pc' = "second_pass"
    /\ UNCHANGED <<am, dc, code, data, symbol_table, is_entry_exists, is_extern_exists,
                   first_error, second_error, err_log, files, hist, before, final_ic>>
    /\ UNCHANGED <<pre_vars, b64_vars, run_vars, op_vars>>

\* One turn of the loop of second_process.
SecondPassLine ==
    /\ pc = "second_pass"
    /\ line_num <= Len(am)
    /\ \E junk \in JunkInts, junk_token \in JunkTokens :
        LET line == trim_whitespaces(am[line_num])
            g == [ic |-> ic, code |-> code, symbol_table |-> symbol_table,
                  ext_table |-> ext_table, is_entry_exists |-> is_entry_exists,
                  errs |-> <<>>]
            r == IF should_ignore(line) THEN [ok |-> TRUE, g |-> g, crash |-> FALSE]
                 ELSE parse_line_second_pass(g, line, junk, junk_token)
        IN  /\ ic' = r.g.ic
            /\ code' = r.g.code
            /\ symbol_table' = r.g.symbol_table
            /\ ext_table' = r.g.ext_table
            /\ is_entry_exists' = r.g.is_entry_exists
            /\ second_error' = (second_error \/ ~r.ok)
            /\ err_log' = err_log \o Logged(2, r.g.errs)
            /\ pc' = IF r.crash THEN "crashed" ELSE pc
            /\ line_num' = IF r.crash THEN line_num ELSE line_num + 1
    /\ UNCHANGED <<am, dc, data, is_extern_exists, first_error, files, hist, before,
                   final_ic>>
    /\ UNCHANGED <<pre_vars, b64_vars, run_vars, op_vars>>

\* Mutant of SecondPassEnd: the output files are written whenever the second
\* pass succeeded.
SecondPassEnd_any_first ==
    /\ pc = "second_pass"
    /\ line_num > Len(am)
    /\ pc' = "done"
    /\ IF second_error
       THEN UNCHANGED <<files, symbol_table, ext_table>>
       ELSE /\ files' = create_output_files(ic, dc, code, data, symbol_table, ext_table,
                                            is_entry_exists, is_extern_exists)
            /\ symbol_table' = <<>>
            /\ ext_table' = <<>>
    /\ UNCHANGED <<am, ic, dc, line_num, code, data, is_entry_exists, is_extern_exists,
                   first_error, second_error, err_log, hist, before, final_ic>>
    /\ UNCHANGED <<pre_vars, b64_vars, run_vars, op_vars>>

\* second_process returns at the end of the file; main, lines 59-74.
SecondPassEnd ==
    /\ pc = "second_pass"
    /\ line_num > Len(am)
    /\ pc' = "done"
    /\ IF second_error
       THEN UNCHANGED <<files, symbol_table, ext_table>>
       ELSE /\ files' = IF ~first_error
                        THEN create_output_files(ic, dc, code, data, symbol_table, ext_table,
                                                 is_entry_exists, is_extern_exists)
                        ELSE files
            /\ symbol_table' = <<>>
            /\ ext_table' = <<>>
    /\ UNCHANGED <<am, ic, dc, line_num, code, data, is_entry_exists, is_extern_exists,
                   first_error, second_error, err_log, hist, before, final_ic>>
    /\ UNCHANGED <<pre_vars, b64_vars, run_vars, op_vars>>

Next ==
    \/ \E text \in Lines : FirstPassLine(text)
    \/ FirstPassEnd
    \/ SecondPassBegin
    \/ SecondPassLine
    \/ SecondPassEnd

Spec == Init /\ [][Next]_vars

\* ------------------------------------------------------------------------
\* The run of main for one .as file, from pre_process on
\* ------------------------------------------------------------------------
\* pre_process, lines 266-271 and 314, on the zero-initialised globals
InitSource ==
    /\ am = <<>>
    /\ pc = "pre_process"
    /\ ic = 0
    /\ dc = 0
    /\ line_num = 1
    /\ code = <<>>
    /\ data = <<>>
    /\ symbol_table = <<>>
    /\ ext_table = <<>>
    /\ is_entry_exists = FALSE
    /\ is_extern_exists = FALSE
    /\ first_error = FALSE
    /\ second_error = FALSE
    /\ err_log = <<>>
    /\ files = NoFiles
    /\ hist = <<>>
    /\ before = [code |-> <<>>, data |-> <<>>, symbol_table |-> <<>>]
    /\ final_ic = 0
    /\ as_read = <<>>
    /\ macro_table = <<>>
    /\ current_macro = 0
    /\ is_inside_macro = FALSE
    /\ pre_success = TRUE
    /\ am_file = <<>>
    /\ b64_word = 0
    /\ b64_string = NULL
    /\ argv = <<>>
    /\ outputs = <<>>
    /\ op_type = NONE_OP
    /\ op_line = <<>>
    /\ op_result = <<>>

\* One turn of the loop of pre_process on the line text that fgets has read;
\* an error leaves the loop before line_num++.
pre_process_turn(text) ==
    /\ pc = "pre_process"
    /\ pre_success
    /\ LET m == [macro_table |-> macro_table, current_macro |-> current_macro,
                 is_inside_macro |-> is_inside_macro, success |-> TRUE,
                 out |-> am_file, errs |-> <<>>]
           r == pre_process_line(m, WithNewline(text))
       IN  /\ as_read' = Append(as_read, WithNewline(text))
           /\ macro_table' = r.macro_table
           /\ current_macro' = r.current_macro
           /\ is_inside_macro' = r.is_inside_macro
           /\ pre_success' = r.success
           /\ am_file' = r.out
           /\ err_log' = err_log \o Logged(0, r.errs)
           /\ line_num' = IF r.success THEN line_num + 1 ELSE line_num
    /\ UNCHANGED <<am, pc, ic, dc, code, data, symbol_table, ext_table, is_entry_exists,
                   is_extern_exists, first_error, second_error, files, hist, before,
                   final_ic, b64_vars, run_vars, op_vars>>

\* fgets reads the next line of the .as file.
PreProcessLine(text) ==
    /\ SourceNext(as_read, text)
    /\ pre_process_turn(text)

\* Mutant of PreProcessEnd: first_process leaves the two flags as they are.
PreProcessEnd_stale_flags ==
    /\ pc = "pre_process"
    /\ macro_table' = <<>>
    /\ current_macro' = 0
    /\ IF pre_success
       THEN /\ pc' = "first_pass"
            /\ ic' = 0
            /\ dc' = 0
            /\ line_num' = 1
            /\ symbol_table' = <<>>
            /\ UNCHANGED <<is_entry_exists, is_extern_exists>>
            /\ UNCHANGED <<am_file, err_log>>
       ELSE /\ pc' = "done"
            /\ am_file' = NULL
            /\ err_log' = err_log \o Logged(0, <<"MCR_EXP_FAILED">>)
            /\ UNCHANGED <<ic, dc, line_num, symbol_table, is_entry_exists,
                           is_extern_exists>>
    /\ UNCHANGED <<am, code, data, ext_table, first_error, second_error, files, hist,
                   before, final_ic, as_read, is_inside_macro, pre_success, b64_vars, run_vars, op_vars>>

\* The loop of pre_process is over, at the end of the .as file or by break:
\* pre_process, lines 387-407. On failure the .am file is removed and main
\* goes on to the next file; on success main calls first_process, lines 41-48.
PreProcessEnd ==
    /\ pc = "pre_process"
    /\ macro_table' = <<>>
    /\ current_macro' = 0
    /\ IF pre_success
       THEN /\ pc' = "first_pass"
            /\ ic' = 0
            /\ dc' = 0
            /\ line_num' = 1
            /\ symbol_table' = <<>>
            /\ is_entry_exists' = FALSE
            /\ is_extern_exists' = FALSE
            /\ UNCHANGED <<am_file, err_log>>
       ELSE /\ pc' = "done"
            /\ am_file' = NULL
            /\ err_log' = err_log \o Logged(0, <<"MCR_EXP_FAILED">>)
            /\ UNCHANGED <<ic, dc, line_num, symbol_table, is_entry_exists,
                           is_extern_exists>>
    /\ UNCHANGED <<am, code, data, ext_table, first_error, second_error, files, hist,
                   before, final_ic, as_read, is_inside_macro, pre_success, b64_vars, run_vars, op_vars>>

\* fgets reads the next line of the .am file that pre_process wrote.
FirstPassFileLine ==
    /\ Len(am) < Len(am_file)
    /\ first_process_line(am_file[Len(am) + 1])

\* fgets finds the end of the .am file.
FirstPassFileEnd ==
    /\ Len(am) = Len(am_file)
    /\ FirstPassEnd

NextSource ==
    \/ \E text \in SourceLines : PreProcessLine(text)
    \/ PreProcessEnd
    \/ FirstPassFileLine
    \/ FirstPassFileEnd
    \/ SecondPassBegin
    \/ SecondPassLine
    \/ SecondPassEnd

SpecSource == InitSource /\ [][NextSource]_vars

\* ------------------------------------------------------------------------
\* The run of main over several files: SpecRun explores the command lines of
\* at most MaxFiles files of RunFiles. The globals of main.c live through
\* the run; each file is processed as in SpecSource.
\* ------------------------------------------------------------------------
\* A reference to an external symbol
E_extern_ref == <<L_extern_X, L_jmp_X>>
\* A symbol declared an entry and external: pass 2 fails
E_entry_extern == <<L_entry_X, L_extern_X>>

RunFiles == {E_data, E_entry_order, E_extern_ref, E_macro_body, E_entry_extern, E_errors,
             E_mcro_extra}

\* main, line 41, i = 1: pre_process starts on the first file.
InitRun ==
    /\ am = <<>>
    /\ pc = "pre_process"
    /\ ic = 0
    /\ dc = 0
    /\ line_num = 1
    /\ code = <<>>
    /\ data = <<>>
    /\ symbol_table = <<>>
    /\ ext_table = <<>>
    /\ is_entry_exists = FALSE
    /\ is_extern_exists = FALSE
    /\ first_error = FALSE
    /\ second_error = FALSE
    /\ err_log = <<>>
    /\ files = NoFiles
    /\ hist = <<>>
    /\ before = [code |-> <<>>, data |-> <<>>, symbol_table |-> <<>>]
    /\ final_ic = 0
    /\ as_read = <<>>
    /\ macro_table = <<>>
    /\ current_macro = 0
    /\ is_inside_macro = FALSE
    /\ pre_success = TRUE
    /\ am_file = <<>>
    /\ b64_word = 0
    /\ b64_string = NULL
    /\ argv \in {<<f>> : f \in RunFiles}
    /\ outputs = <<>>
    /\ op_type = NONE_OP
    /\ op_line = <<>>
    /\ op_result = <<>>

\* fgets reads the next line of the file argv[i].
RunPreProcessLine ==
    /\ Len(as_read) < Len(argv[Len(argv)])
    /\ pre_process_turn(argv[Len(argv)][Len(as_read) + 1])

\* fgets finds the end of argv[i], or the loop was left by break.
RunPreProcessEnd ==
    /\ ~pre_success \/ Len(as_read) = Len(argv[Len(argv)])
    /\ PreProcessEnd

\* main, line 41, i++: the loop goes on to the next file, f. The locals of
\* main and of pre_process start afresh (lines 42-43, 266-271); the globals
\* keep what the file before left in them.
NextFile(f) ==
    /\ pc = "done"
    /\ Len(argv) < MaxFiles
    /\ argv' = Append(argv, f)
    /\ outputs' = Append(outputs, files)
    /\ pc' = "pre_process"
    /\ line_num' = 1
    /\ am' = <<>>
    /\ as_read' = <<>>
    /\ am_file' = <<>>
    /\ macro_table' = <<>>
    /\ current_macro' = 0
    /\ is_inside_macro' = FALSE
    /\ pre_success' = TRUE
    /\ first_error' = FALSE
    /\ second_error' = FALSE
    /\ files' = NoFiles
    /\ hist' = <<>>
    /\ before' = [code |-> <<>>, data |-> <<>>, symbol_table |-> <<>>]
    /\ final_ic' = 0
    /\ UNCHANGED <<ic, dc, code, data, symbol_table, ext_table, is_entry_exists,
                   is_extern_exists, err_log, b64_vars, op_vars>>

NextRun ==
    \/ RunPreProcessLine
    \/ RunPreProcessEnd
    \/ FirstPassFileLine
    \/ FirstPassFileEnd
    \/ SecondPassBegin
    \/ SecondPassLine
    \/ SecondPassEnd
    \/ \E f \in RunFiles : NextFile(f)

SpecRun == InitRun /\ [][NextRun]_vars

\* ------------------------------------------------------------------------
\* process_operation as a function of the opcode and the operands: SpecOperation
\* hands it every opcode with no, one or two operands of every mode, as the
\* rest of the line that parse_line passes on.
\* ------------------------------------------------------------------------
\* -1
O_number == <<"-", "1">>
\* @r1
O_register == <<"@", "r", "1">>

Operands == {O_number, N_A, O_register}

OperandLists == {<<>>} \cup {<<a>> : a \in Operands} \cup {<<a, b>> : a, b \in Operands}

\* The line of an opcode and its operands, the operands separated by ", "
OperationText(op, ops) ==
    OpNames[op + 1]
    \o (IF Len(ops) >= 1 THEN <<" ">> \o ops[1] ELSE <<>>)
    \o (IF Len(ops) = 2 THEN <<",", " ">> \o ops[2] ELSE <<>>)

\* parse_line, lines 118-119 and 170: the rest of the line after the opcode
OperandText(op, ops) ==
    extract_remaining_seq(trim_whitespaces(WithNewline(OperationText(op, ops))), SEP_COMMA)

InitOperation ==
    /\ am = <<>>
    /\ pc = "process_operation"
    /\ ic = 0
    /\ dc = 0
    /\ line_num = 1
    /\ code = <<>>
    /\ data = <<>>
    /\ symbol_table = <<>>
    /\ ext_table = <<>>
    /\ is_entry_exists = FALSE
    /\ is_extern_exists = FALSE
    /\ first_error = FALSE
    /\ second_error = FALSE
    /\ err_log = <<>>
    /\ files = NoFiles
    /\ hist = <<>>
    /\ before = [code |-> <<>>, data |-> <<>>, symbol_table |-> <<>>]
    /\ final_ic = 0
    /\ as_read = <<>>
    /\ macro_table = <<>>
    /\ current_macro = 0
    /\ is_inside_macro = FALSE
    /\ pre_success = TRUE
    /\ am_file = <<>>
    /\ b64_word = 0
    /\ b64_string = NULL
    /\ argv = <<>>
    /\ outputs = <<>>
    /\ op_type \in MOV_OP..STOP_OP
    /\ op_line \in {OperandText(op_type, ops) : ops \in OperandLists}
    /\ op_result = <<>>

\* parse_line, line 170: the call of process_operation
ProcessOperation ==
    /\ pc = "process_operation"
    /\ op_result = <<>>
    /\ LET g == [ic |-> ic, dc |-> dc, code |-> code, data |-> data,
                 symbol_table |-> symbol_table, is_extern_exists |-> is_extern_exists,
                 errs |-> <<>>]
           r == process_operation(g, op_type, op_line)
       IN  /\ op_result' = <<r.ok>>
           /\ ic' = r.g.ic
           /\ code' = r.g.code
           /\ err_log' = err_log \o Logged(1, r.g.errs)
    /\ UNCHANGED <<am, pc, dc, line_num, data, symbol_table, ext_table, is_entry_exists,
                   is_extern_exists, first_error, second_error, files, hist, before,
                   final_ic, pre_vars, b64_vars, run_vars, op_type, op_line>>

NextOperation == ProcessOperation

SpecOperation == InitOperation /\ [][NextOperation]_vars

\* ------------------------------------------------------------------------
\* Pass 1 on long files: SpecMemory explores the files that repeat one
\* accepted line, up to the first line that takes a counter beyond the
\* arrays; past their end the writes of the code are undefined.
\* ------------------------------------------------------------------------
\* .data 1, 2, 3, 4, 5, 6, 7, 8
L_data_eight ==
    <<".", "d", "a", "t", "a", " ", "1", ",", " ", "2", ",", " ", "3", ",", " ", "4", ",", " ", "5", ",", " ", "6", ",", " ", "7", ",", " ", "8">>

LongFileLines == {L_mov_B_A, L_data_eight}

\* fgets reads the next line of a file of equal lines.
FirstPassLongLine(text) ==
    /\ ic <= MEM_SIZE
    /\ dc <= MEM_SIZE
    /\ \A i \in 1..Len(am) : am[i] = WithNewline(text)
    /\ first_process_line(WithNewline(text))

NextMemory == \E text \in LongFileLines : FirstPassLongLine(text)

SpecMemory == Init /\ [][NextMemory]_vars

\* ------------------------------------------------------------------------
\* What the source text of a line says, read with the lexer of pass 1: its
\* label, its operation or directive, and its operands with their modes.
\* ------------------------------------------------------------------------
LineInfo(text) ==
    With(trim_whitespaces(WithNewline(text)), LAMBDA line :
    With(copy_next_token(line, SEP_LABEL), LAMBDA token :
    With(is_symbol(token, TRUE), LAMBDA is_label :
    With(IF is_label THEN extract_remaining_seq(line, SEP_COLON) ELSE line, LAMBDA l1 :
    With(IF is_label THEN copy_next_token(l1, SEP_COMMA) ELSE token, LAMBDA current_token :
    With(extract_remaining_seq(l1, SEP_COMMA), LAMBDA l2 :
    With(extract_operands(find_operation(current_token), l2), LAMBDA x :
    With(IF find_operation(current_token) = NONE_OP THEN <<>>
         ELSE (IF x.has_first THEN <<x.first_operand>> ELSE <<>>)
              \o (IF x.has_second THEN <<x.second_operand>> ELSE <<>>), LAMBDA operands :
        [label |-> IF is_label THEN SubSeq(token, 1, Len(token) - 1) ELSE <<>>,
         op |-> find_operation(current_token),
         dir |-> find_directive(current_token),
         param |-> copy_next_token(l2, SEP_BLANK),
         rest |-> l2,
         operands |-> operands,
         modes |-> [j \in 1..Len(operands) |-> detect_addr_mode(operands[j])]]))))))))

LinesInfo == [l \in Lines |-> LineInfo(l)]

\* The source text of line i of the file.
InfoAt(i) == LinesInfo[SubSeq(am[i], 1, Len(am[i]) - 1)]

\* Pass 1 accepted line i (and did not skip it as blank or comment).
Accepted(i) == hist[i].ok /\ ~hist[i].ignored

\* Line i is an accepted opcode line.
OpLine(i) == Accepted(i) /\ InfoAt(i).op # NONE_OP

\* Line i is an accepted .data or .string line.
DataLine(i) == Accepted(i) /\ InfoAt(i).op = NONE_OP /\ InfoAt(i).dir \in {DATA, STRING_DIR}

\* first_process has returned and the symbol table is still allocated.
AfterFirstPass == pc \in {"first_done", "second_pass"}

\* second_process has read every line.
EndOfSecondPass == pc = "second_pass" /\ line_num > Len(am)

\* C1: at the end of pass 1 the label of every accepted opcode line has address
\* 100 + (IC before its line) and the label of every accepted .data/.string
\* line has address 100 + final IC + (DC before its line); every symbol that
\* is not external is such a label (so the offset was added to it once), and
\* an external symbol keeps the address 0.
C1_LabelAddresses ==
    AfterFirstPass =>
        /\ \A i \in 1..Len(hist) :
              (OpLine(i) \/ DataLine(i)) /\ InfoAt(i).label # <<>> =>
                  /\ is_existing_symbol(symbol_table, InfoAt(i).label)
                  /\ ~is_extern_symbol(symbol_table, InfoAt(i).label)
                  /\ get_symbol_addr(symbol_table, InfoAt(i).label)
                         = IF OpLine(i) THEN 100 + hist[i].ic
                           ELSE 100 + final_ic + hist[i].dc
        /\ \A k \in 1..Len(symbol_table) :
              IF symbol_table[k].is_ext THEN symbol_table[k].address = 0
              ELSE \E i \in 1..Len(hist) :
                       /\ OpLine(i) \/ DataLine(i)
                       /\ InfoAt(i).label = symbol_table[k].name

\* C1 witness: pass 1 has ended with code before the data and a data label
\* defined when DC was already positive.
C1_Witness ==
    /\ pc = "first_done"
    /\ final_ic > 0
    /\ \E i \in 1..Len(hist) :
          DataLine(i) /\ InfoAt(i).label # <<>> /\ hist[i].dc > 0

\* C2: when pass 1 reported no error, after the addresses were finalised every
\* instruction symbol lies in [100, 100 + final IC) and every data symbol in
\* [100 + final IC, 100 + final IC + final DC).
C2_AddressRanges ==
    AfterFirstPass /\ ~first_error =>
        \A k \in 1..Len(symbol_table) :
            ~symbol_table[k].is_ext =>
                \/ /\ symbol_table[k].type = INSTRUCTION
                   /\ 100 <= symbol_table[k].address
                   /\ symbol_table[k].address < 100 + final_ic
                \/ /\ symbol_table[k].type = DIRECTIVE
                   /\ 100 + final_ic <= symbol_table[k].address
                   /\ symbol_table[k].address < 100 + final_ic + dc

\* C2 witness: an error-free pass 1 has ended with an instruction symbol and a
\* data symbol in the table.
C2_Witness ==
    /\ pc = "first_done"
    /\ ~first_error
    /\ \E j, k \in 1..Len(symbol_table) :
          /\ ~symbol_table[j].is_ext /\ symbol_table[j].type = INSTRUCTION
          /\ ~symbol_table[k].is_ext /\ symbol_table[k].type = DIRECTIVE

\* C3: when pass 1 reported no error, IC at the end of pass 2 equals IC at the
\* end of pass 1, also when pass 2 reported SYMBOL_NOT_FOUND.
C3_SameFinalIC ==
    (EndOfSecondPass \/ pc = "done") /\ ~first_error => ic = final_ic

\* C3 witness: pass 2 has ended after an error-free pass 1 and reported
\* SYMBOL_NOT_FOUND.
C3_Witness ==
    /\ EndOfSecondPass
    /\ ~first_error
    /\ final_ic > 0
    /\ \E e \in 1..Len(err_log) :
          err_log[e].pass = 2 /\ err_log[e].err = "SYMBOL_NOT_FOUND"

\* The file made of these lines, as fgets reads it.
File(lines) == [i \in 1..Len(lines) |-> WithNewline(lines[i])]

\* Operand j of line i is a DIRECT operand.
DirectOperand(i, j) ==
    OpLine(i) /\ j \in 1..Len(InfoAt(i).operands) /\ InfoAt(i).modes[j] = DIRECT_ADDR

\* C4: when pass 1 reported no error, at the end of pass 2 the word that pass 1
\* reserved for a DIRECT operand naming a symbol that is not external (the
\* j-th word after the opcode word of its line) holds (address << 2) | 2,
\* whether the symbol is defined before or after the line.
C4_DirectOperandWords ==
    EndOfSecondPass /\ ~first_error =>
        \A i \in 1..Len(hist) : \A j \in 1..2 :
            /\ DirectOperand(i, j)
            /\ is_existing_symbol(symbol_table, InfoAt(i).operands[j])
            /\ ~is_extern_symbol(symbol_table, InfoAt(i).operands[j])
            => ReadWord(code, hist[i].ic + j)
                   = 4 * get_symbol_addr(symbol_table, InfoAt(i).operands[j]) + 2

\* C4 witness: pass 2 has ended after an error-free pass 1 on a file whose
\* line i has, as its second operand, a DIRECT operand naming the label of a
\* later line.
C4_Witness ==
    /\ EndOfSecondPass
    /\ ~first_error
    /\ \E i \in 1..Len(hist) : \E d \in (i + 1)..Len(hist) :
          /\ DirectOperand(i, 2)
          /\ (OpLine(d) \/ DataLine(d))
          /\ InfoAt(d).label = InfoAt(i).operands[2]

\* IC after line i of pass 1.
IcAfter(i) ==
    IF i < Len(hist) THEN hist[i + 1].ic
    ELSE IF pc = "first_pass" THEN ic
    ELSE final_ic

\* C5: every accepted opcode line advances IC by 1 + the number of its
\* operands, minus one when both operands are registers, that is by 1, 2 or 3;
\* "mov @r3, @r4" followed by "stop" gives final IC 3.
C5_WordsPerLine ==
    /\ \A i \in 1..Len(hist) :
          OpLine(i) =>
              /\ IcAfter(i) - hist[i].ic
                     = 1 + Len(InfoAt(i).operands)
                         - (IF InfoAt(i).modes = <<REG_DIRECT_ADDR, REG_DIRECT_ADDR>>
                            THEN 1 ELSE 0)
              /\ IcAfter(i) - hist[i].ic \in {1, 2, 3}
    /\ pc = "first_done" /\ am = File(<<L_mov_regs, L_stop>>) => final_ic = 3

\* C5 witness: pass 1 has ended on "mov @r3, @r4", "stop".
C5_Witness ==
    pc = "first_done" /\ am = File(<<L_mov_regs, L_stop>>) /\ ~first_error

\* The line "EXT<tab>101" of an externals file
EXT_101 == <<"E", "X", "T", "\t", "1", "0", "1", "\n">>

ExternNames ==
    {InfoAt(i).param : i \in {n \in 1..Len(hist) :
        Accepted(n) /\ InfoAt(n).op = NONE_OP /\ InfoAt(n).dir = EXTERN}}

\* The record of operand j of line i, if it is a DIRECT operand naming an
\* external symbol.
ExtRef(i, j) ==
    IF DirectOperand(i, j) /\ InfoAt(i).operands[j] \in ExternNames
    THEN << [name |-> InfoAt(i).operands[j], address |-> hist[i].ic + j + 100] >>
    ELSE <<>>

\* The records of the lines from line i on: line order, source before destination.
RECURSIVE ExtRefsFrom(_)
ExtRefsFrom(i) ==
    IF i > Len(hist) THEN <<>>
    ELSE ExtRef(i, 1) \o ExtRef(i, 2) \o ExtRefsFrom(i + 1)

Names(table) == {table[k].name : k \in 1..Len(table)}

\* Pass 1 has just read a line (the last of hist) that it did not skip.
LineJustParsed == pc = "first_pass" /\ hist # <<>> /\ ~hist[Len(hist)].ignored

\* Pass 1 has just rejected a line.
LineJustFailed == LineJustParsed /\ ~hist[Len(hist)].ok

\* The line just read defines a name that was in the table before it: as its
\* label, or as the operand of its .extern directive (every .extern line of
\* the Programs has one well-formed operand and nothing after it).
Redefines ==
    \/ InfoAt(Len(hist)).label \in Names(before.symbol_table)
    \/ /\ InfoAt(Len(hist)).op = NONE_OP
       /\ InfoAt(Len(hist)).dir = EXTERN
       /\ InfoAt(Len(hist)).param \in Names(before.symbol_table)

\* C8: no two symbols of the table share a name; a line whose label or .extern
\* operand is already in the table is rejected with SYMBOL_ALREADY_EXISTS and
\* leaves the table as it was.
C8_UniqueNames ==
    /\ \A j, k \in 1..Len(symbol_table) :
          j # k => symbol_table[j].name # symbol_table[k].name
    /\ LineJustParsed /\ Redefines =>
          /\ ~hist[Len(hist)].ok
          /\ \E e \in 1..Len(err_log) :
                err_log[e] = [pass |-> 1, line |-> Len(hist), err |-> "SYMBOL_ALREADY_EXISTS"]
          /\ symbol_table = before.symbol_table

\* C8 witness: pass 1 has just rejected an .extern line without label whose
\* operand was already in the table.
C8_Witness ==
    /\ LineJustFailed
    /\ Redefines
    /\ InfoAt(Len(hist)).dir = EXTERN
    /\ InfoAt(Len(hist)).label = <<>>
    /\ Len(symbol_table) > 0

\* C9: a line that pass 1 rejects leaves the symbol table exactly as it was
\* before the line.
C9_FailedLineKeepsSymbols ==
    LineJustFailed => symbol_table = before.symbol_table

\* C9 witness: pass 1 has just rejected a line with a new label, read when the
\* table already held a symbol.
C9_Witness ==
    /\ LineJustFailed
    /\ InfoAt(Len(hist)).label # <<>>
    /\ InfoAt(Len(hist)).label \notin Names(before.symbol_table)
    /\ before.symbol_table # <<>>
    /\ symbol_table = before.symbol_table

\* Two arrays hold the same words.
SameWords(a, b) ==
    \A k \in (DOMAIN a) \cup (DOMAIN b) : ReadWord(a, k) = ReadWord(b, k)

\* C10: a line that pass 1 rejects leaves the words of code[] and data[] and
\* the symbol table as they were before the line.
C10_FailedLineMutatesNothing ==
    LineJustFailed =>
        /\ SameWords(code, before.code)
        /\ SameWords(data, before.data)
        /\ symbol_table = before.symbol_table

\* ------------------------------------------------------------------------
\* convert_to_base64 applied to one twelve-bit word
\* ------------------------------------------------------------------------
\* The bits of a word that the object file shows
WORD_BITS == SECOND_HALF_END + 1

\* The globals as main finds them, and a word
InitBase64 ==
    /\ am = <<>>
    /\ pc = "base64"
    /\ ic = 0
    /\ dc = 0
    /\ line_num = 1
    /\ code = <<>>
    /\ data = <<>>
    /\ symbol_table = <<>>
    /\ ext_table = <<>>
    /\ is_entry_exists = FALSE
    /\ is_extern_exists = FALSE
    /\ first_error = FALSE
    /\ second_error = FALSE
    /\ err_log = <<>>
    /\ files = NoFiles
    /\ hist = <<>>
    /\ before = [code |-> <<>>, data |-> <<>>, symbol_table |-> <<>>]
    /\ final_ic = 0
    /\ as_read = <<>>
    /\ macro_table = <<>>
    /\ current_macro = 0
    /\ is_inside_macro = FALSE
    /\ pre_success = TRUE
    /\ am_file = <<>>
    /\ b64_word \in 0..(Pow2(WORD_BITS) - 1)
    /\ b64_string = NULL
    /\ argv = <<>>
    /\ outputs = <<>>
    /\ op_type = NONE_OP
    /\ op_line = <<>>
    /\ op_result = <<>>

ConvertToBase64 ==
    /\ pc = "base64"
    /\ b64_string = NULL
    /\ b64_string' = convert_to_base64(b64_word)
    /\ UNCHANGED <<am, pc, ic, dc, line_num, code, data, symbol_table, ext_table,
                   is_entry_exists, is_extern_exists, first_error, second_error,
                   err_log, files, hist, before, final_ic, pre_vars, b64_word, run_vars, op_vars>>

NextBase64 == ConvertToBase64

SpecBase64 == InitBase64 /\ [][NextBase64]_vars

\* ------------------------------------------------------------------------
\* Claims checked on SpecSource
\* ------------------------------------------------------------------------
\* C11: output files exist only once main is through with the file, and then
\* only if pre_process succeeded and neither pass reported an error: after
\* an error of the preprocessor or of either pass none of the .ob, .ent and
\* .ext files is written.
C11_ArtifactsOnlyAfterSuccess ==
    /\ files # NoFiles =>
          /\ pc = "done"
          /\ pre_success /\ ~first_error /\ ~second_error
          /\ err_log = <<>>
    /\ pc = "done" /\ (~pre_success \/ first_error \/ second_error) =>
          /\ files.ob = NULL /\ files.ent = NULL /\ files.ext = NULL
          /\ err_log # <<>>

\* C11 witness: main is through with a file of which only pass 1 reported an
\* error, and no file was written.
C11_Witness ==
    /\ pc = "done"
    /\ pre_success /\ first_error /\ ~second_error
    /\ files = NoFiles

\* What the source text of each line of the .as files says
SourceInfo == [l \in SourceLines |-> LineInfo(l)]

\* The source text of line i of the .am file
SourceInfoAt(i) == SourceInfo[SubSeq(am[i], 1, Len(am[i]) - 1)]

\* The .as file read is this sequence of lines.
SourceFile(lines) == [i \in 1..Len(lines) |-> WithNewline(lines[i])]

\* C12: in every state of pass 1 and pass 2 (and of the rest of the run) no
\* symbol of the table is both external and an entry.
C12_NoExternEntry ==
    \A i \in 1..Len(symbol_table) :
        ~(symbol_table[i].is_ext /\ symbol_table[i].is_ent)

\* C12 witness: pass 2 has just refused to make an external symbol an entry.
C12_Witness ==
    /\ pc = "second_pass"
    /\ \E i \in 1..Len(symbol_table) : symbol_table[i].is_ext
    /\ err_log # <<>>
    /\ err_log[Len(err_log)] =
           [pass |-> 2, line |-> line_num - 1, err |-> "ENTRY_CANNOT_BE_EXTERN"]

\* The symbols of the table that are entries, in table order
EntrySymbols(table) == SelectSeq(table, LAMBDA sym : sym.is_ent)

\* The line of the entries file for a symbol
EntLine(sym) == sym.name \o <<"\t">> \o FormatInt(sym.address) \o <<"\n">>

X_100 == <<"X", "\t", "1", "0", "0", "\n">>
X_101 == <<"X", "\t", "1", "0", "1", "\n">>
Y_100 == <<"Y", "\t", "1", "0", "0", "\n">>

\* C13: when main writes the entries file it holds one line, name and final
\* address, for each symbol of the table that is an entry, in table order
\* and nothing else; a second .entry for the same symbol is accepted without
\* an error and adds no line: X: .data 1 with two .entry X lines gives the
\* single line "X<tab>100".
C13_EntriesFile ==
    /\ [][pc = "second_pass" /\ pc' = "done" /\ files'.ent # NULL =>
            /\ Len(files'.ent) = Len(EntrySymbols(symbol_table))
            /\ \A i \in 1..Len(files'.ent) :
                   files'.ent[i] = EntLine(EntrySymbols(symbol_table)[i])]_vars
    /\ [](pc = "done" /\ as_read = SourceFile(E_entry_twice) =>
            /\ err_log = <<>>
            /\ files.ent = <<X_100>>)
    /\ [](pc = "done" /\ as_read = SourceFile(E_entry_order) =>
            files.ent = <<Y_100, X_101>>)

\* C13 witness: the entries file of the file with two .entry X lines is
\* written.
C13_Witness ==
    /\ pc = "done"
    /\ as_read = SourceFile(E_entry_twice)
    /\ files.ent # NULL

\* Line line_num of the .am file is an .entry line and pass 2 takes it.
EntryStep ==
    /\ pc = "second_pass"
    /\ line_num <= Len(am)
    /\ line_num' = line_num + 1
    /\ SourceInfoAt(line_num).dir = ENTRY

\* C14: in pass 2 a line .entry S prints ENTRY_SYMBOL_NOT_FOUND when S is not
\* in the symbol table and ENTRY_CANNOT_BE_EXTERN when S is external, the
\* line fails, and the table and is_entry_exists stay as they are; otherwise
\* S becomes an entry, is_entry_exists becomes true, nothing else in the
\* table changes and no error is printed.
C14_EntryInSecondPass ==
    [][EntryStep =>
        LET S == SourceInfoAt(line_num).param
            k == find_symbol(symbol_table, S)
            failed(e) ==
                /\ err_log' = Append(err_log, [pass |-> 2, line |-> line_num, err |-> e])
                /\ second_error'
                /\ symbol_table' = symbol_table
                /\ is_entry_exists' = is_entry_exists
        IN  IF k = 0 THEN failed("ENTRY_SYMBOL_NOT_FOUND")
            ELSE IF symbol_table[k].is_ext THEN failed("ENTRY_CANNOT_BE_EXTERN")
            ELSE /\ symbol_table' = [symbol_table EXCEPT ![k].is_ent = TRUE]
                 /\ is_entry_exists'
                 /\ err_log' = err_log
                 /\ second_error' = second_error]_vars

\* C14 witness: pass 2 has just made a symbol an entry.
C14_Witness ==
    /\ pc = "second_pass"
    /\ line_num > 1
    /\ SourceInfoAt(line_num - 1).dir = ENTRY
    /\ \E i \in 1..Len(symbol_table) : symbol_table[i].is_ent
    /\ is_entry_exists
    /\ ~second_error

\* The address of the symbol of that name
AddressOf(name) == symbol_table[find_symbol(symbol_table, name)].address

\* The twelve bits of data word i that the object file shows
DataWord12(i) == ReadWord(data, i) % 4096

\* The data words 0..n-1
DataWords12(n) == [i \in 1..n |-> DataWord12(i - 1)]

\* C16 as stated: for LIST: .data 7, -57, +17 and STR: .string "ab" pass 1
\* ends with IC = 0, DC = 6, LIST at 100, STR at 103, and the second data
\* word is (-57 & 0x3FF) shifted left by 2 with ARE = 0.
C16_DataWordsShifted ==
    pc = "first_done" /\ as_read = SourceFile(E_data) =>
        /\ ic = 0 /\ dc = 6
        /\ AddressOf(N_LIST) = 100 /\ AddressOf(N_STR) = 103
        /\ DataWords12(6) = <<7, ((0 - 57) % 1024) * 4, 17, 97, 98, 0>>

\* C16 as amended: for LIST: .data 7, -57, +17 and STR: .string "ab" pass 1
\* ends with IC = 0, DC = 6, LIST at 100, STR at 103, and the six data words
\* are 7, -57 in two's complement (twelve bits 0xFC7, the number itself with
\* no shift and no ARE field), 17, 'a', 'b', 0.
C16_DataWords ==
    pc = "first_done" /\ as_read = SourceFile(E_data) =>
        /\ ic = 0 /\ dc = 6
        /\ AddressOf(N_LIST) = 100 /\ AddressOf(N_STR) = 103
        /\ ReadWord(data, 1) = 0 - 57
        /\ DataWords12(6) = <<7, 4039, 17, 97, 98, 0>>

\* C16 witness: pass 1 has read the two lines and stored six data words.
C16_Witness ==
    /\ pc = "first_done"
    /\ as_read = SourceFile(E_data)
    /\ first_error = FALSE
    /\ DOMAIN data = 0..5

\* C18 as stated: for the source mcro INIT / mov #0, @r1 / endmcro / INIT /
\* INIT / stop, pass 1 over the expanded stream reports no error and ends
\* with IC = 5 and DC = 0.
C18_MacroExampleAccepted ==
    pc = "first_done" /\ as_read = SourceFile(E_macro) =>
        /\ ~first_error
        /\ ic = 5 /\ dc = 0

\* The errors pass 1 printed, as <<line, error>>
FirstPassErrors ==
    [i \in 1..Len(SelectSeq(err_log, LAMBDA e : e.pass = 1)) |->
        <<SelectSeq(err_log, LAMBDA e : e.pass = 1)[i].line,
          SelectSeq(err_log, LAMBDA e : e.pass = 1)[i].err>>]

\* C18 as amended: for the source mcro INIT / mov #0, @r1 / endmcro / INIT /
\* INIT / stop, the expanded stream is the body twice and stop; pass 1
\* rejects both mov #0, @r1 lines, #0 being no number, register or symbol
\* (OP_INVALID_ADDR_MODE), and ends with IC = 1 and DC = 0.
C18_MacroExample ==
    pc = "first_done" /\ as_read = SourceFile(E_macro) =>
        /\ am = SourceFile(<<L_mov_hash, L_mov_hash, L_stop>>)
        /\ first_error
        /\ FirstPassErrors = << <<1, "SYMBOL_INVALID_FIRST_CHAR">>, <<1, "OP_INVALID_ADDR_MODE">>,
                                <<2, "SYMBOL_INVALID_FIRST_CHAR">>, <<2, "OP_INVALID_ADDR_MODE">> >>
        /\ ic = 1 /\ dc = 0

\* C18 witness: pass 1 has read the three lines of the expanded stream.
C18_Witness ==
    /\ pc = "first_done"
    /\ as_read = SourceFile(E_macro)
    /\ Len(am) = 3

\* C19 as stated: for the source A: mov @r1 / A: add 5, @r2 / foo, pass 1
\* reports exactly three errors, OP_INVALID_OPERANDS_NUM on line 1,
\* SYMBOL_ALREADY_EXISTS on line 2 and UNDEFINED_OP_DIR on line 3, and no
\* output file is written.
C19_ThreeErrors ==
    /\ pc \in {"first_done", "second_pass", "done"} /\ as_read = SourceFile(E_errors) =>
          FirstPassErrors = << <<1, "OP_INVALID_OPERANDS_NUM">>,
                               <<2, "SYMBOL_ALREADY_EXISTS">>,
                               <<3, "UNDEFINED_OP_DIR">> >>
    /\ as_read = SourceFile(E_errors) => files = NoFiles

\* C19 as amended: for the source A: mov @r1 / A: add 5, @r2 / foo, pass 1
\* reports exactly two errors, OP_INVALID_OPERANDS_NUM on line 1 and
\* UNDEFINED_OP_DIR on line 3; line 2 is accepted, the label A of the
\* rejected line 1 having been rolled back; no output file is written.
C19_TwoErrors ==
    /\ pc \in {"first_done", "second_pass", "done"} /\ as_read = SourceFile(E_errors) =>
          /\ FirstPassErrors = << <<1, "OP_INVALID_OPERANDS_NUM">>,
                                  <<3, "UNDEFINED_OP_DIR">> >>
          /\ hist[2].ok
          /\ first_error
    /\ as_read = SourceFile(E_errors) => files = NoFiles

\* C19 witness: main is through with the file.
C19_Witness ==
    /\ pc = "done"
    /\ as_read = SourceFile(E_errors)
    /\ Len(am) = 3

\* No line read from the .as file starts, once trimmed, with mcro.
NoMcroLine ==
    \A i \in 1..Len(as_read) : ~StartsWith(trim_whitespaces(as_read[i]), S_mcro)

\* C20: preprocessing a file no line of which starts with mcro is the
\* identity: the lines written to the .am file are the lines read, one for
\* one and in order, and pre_process does not fail.
C20_PreprocessIdentity ==
    NoMcroLine => pre_success /\ am_file = as_read

\* C20 witness: pre_process has returned for a file without a mcro line that
\* holds an endmcro line and the name of no macro.
C20_Witness ==
    /\ pc = "first_pass"
    /\ NoMcroLine
    /\ Len(as_read) >= 2
    /\ \E i \in 1..Len(as_read) : as_read[i] = WithNewline(L_endmcro)
    /\ am_file = as_read

\* ------------------------------------------------------------------------
\* Further claims checked on Spec
\* ------------------------------------------------------------------------
\* The data words the source text of a .data or .string line asks for: one
\* for each number, or one for each character between the quotes and one for
\* the terminator.
DataWords(info) ==
    IF info.dir = DATA THEN count_commas(info.rest) + 1
    ELSE Len(trim_end_whitespaces(info.rest)) - 2 + 1

\* The data words of the accepted .data and .string lines among lines 1..n
RECURSIVE AcceptedDataWords(_)
AcceptedDataWords(n) ==
    IF n = 0 THEN 0
    ELSE AcceptedDataWords(n - 1) + (IF DataLine(n) THEN DataWords(InfoAt(n)) ELSE 0)

\* C15: at the end of pass 1, dc is the number of data words of the accepted
\* lines: one for each number of every accepted .data line and, for every
\* accepted .string line, one for each character between the quotes and one
\* trailing word.
C15_FinalDC ==
    pc = "first_done" => dc = AcceptedDataWords(Len(hist))

\* ------------------------------------------------------------------------
\* Claims checked on SpecBase64
\* ------------------------------------------------------------------------
\* The place of a character in base64_table, from 0
Base64Index(c) == (CHOOSE i \in 1..Len(base64_table) : base64_table[i] = c) - 1

\* The word that two characters of the alphabet stand for
Base64Value(str) == 64 * Base64Index(str[1]) + Base64Index(str[2])

\* C17: convert_to_base64 maps the twelve-bit words 0..4095 one-to-one onto
\* the 64 * 64 strings of two characters of the alphabet A-Z a-z 0-9 + /:
\* the alphabet has these 64 distinct characters in this order, bits 11..6
\* of the word select the first character and bits 5..0 the second, and the
\* word is read back from the string.
C17_Base64Bijection ==
    /\ Len(base64_table) = 64
    /\ Cardinality({base64_table[i] : i \in 1..64}) = 64
    /\ \A i \in 1..26 : base64_table[i] = Ascii[33 + i] /\ base64_table[26 + i] = Ascii[65 + i]
    /\ \A i \in 1..10 : base64_table[52 + i] = Digits[i]
    /\ base64_table[63] = "+" /\ base64_table[64] = "/"
    /\ b64_string # NULL =>
          /\ Len(b64_string) = 2
          /\ b64_string[1] = base64_table[(b64_word \div 64) + 1]
          /\ b64_string[2] = base64_table[(b64_word % 64) + 1]
          /\ Base64Value(b64_string) = b64_word

\* C17 witness: a word with different halves has been converted.
C17_Witness ==
    /\ b64_word = 64 * 63 + 7
    /\ b64_string = <<"/", "H">>

\* ------------------------------------------------------------------------
\* Further claims checked on SpecSource
\* ------------------------------------------------------------------------
\* C22: when main leaves the pipeline of a file, on any of its exit paths,
\* the symbol table and the ext table of the file have been released.
C22_TablesReleased ==
    pc = "done" => symbol_table = <<>> /\ ext_table = <<>>

\* The errors that pre_process has printed
PreProcessErrors == SelectSeq(err_log, LAMBDA e : e.pass = 0)

\* The errors of a line that end preprocessing
MacroErrors ==
    {"MCR_MISSING_NAME", "MCR_MCRO_EXTRANEOUS_TEXT", "MCR_ENDMCRO_EXTRANEOUS_TEXT",
     "MCR_TOO_LONG", "MCR_CANNOT_BE_REG", "MCR_CANNOT_BE_OP", "MCR_CANNOT_BE_DIR"}

\* C23: the first error of the preprocessor ends preprocessing at its line:
\* pre_process has failed exactly when it has printed an error, that error
\* is the only one of its kind and is on the last line read, the .am file is
\* removed once pre_process returns, and neither pass runs nor is any
\* artifact written.
C23_PreprocessorErrorStops ==
    /\ pre_success <=> \A i \in 1..Len(PreProcessErrors) : PreProcessErrors[i].err \notin MacroErrors
    /\ ~pre_success =>
          /\ pc \in {"pre_process", "done"}
          /\ line_num = Len(as_read)
          /\ PreProcessErrors[1].err \in MacroErrors
          /\ PreProcessErrors[1].line = Len(as_read)
          /\ \A i \in 2..Len(PreProcessErrors) : PreProcessErrors[i].err = "MCR_EXP_FAILED"
          /\ pc = "done" => am_file = NULL /\ Len(PreProcessErrors) = 2
          /\ am = <<>> /\ hist = <<>> /\ files = NoFiles
          /\ ~first_error /\ ~second_error
          /\ Len(err_log) = Len(PreProcessErrors)

\* C23 witness: text after endmcro on the third line has ended preprocessing,
\* and main has gone on.
C23_Witness ==
    /\ pc = "done"
    /\ ~pre_success
    /\ as_read = SourceFile(SubSeq(E_endmcro_extra, 1, 3))
    /\ am_file = NULL
    /\ PreProcessErrors[1] = [pass |-> 0, line |-> 3, err |-> "MCR_ENDMCRO_EXTRANEOUS_TEXT"]

\* pre_process has read one more line, read, without an error.
PreProcessStep(read) ==
    /\ pc = "pre_process"
    /\ as_read' = Append(as_read, read)
    /\ pre_success'

\* C26: of the lines pre_process reads without an error, a line inside a
\* macro definition and a mcro line are never written to the .am file, and a
\* line inside a definition that neither starts a macro nor ends the
\* definition is added, as read, to the end of the body of the macro being
\* defined; a line outside any definition whose trimmed text is the name of
\* a defined macro is replaced by the body of that macro, as captured and in
\* the order of capture; every other line is written as read. For the file
\* mcro INIT / jmp X / stop / endmcro / X: .data 1 / INIT (between blanks)
\* the .am file is X: .data 1 / jmp X / stop.
C26_MacroExpansion ==
    /\ [][\A read \in {WithNewline(l) : l \in SourceLines} : PreProcessStep(read) =>
            IF is_inside_macro \/ StartsWith(trim_whitespaces(read), S_mcro)
            THEN /\ am_file' = am_file
                 /\ (is_inside_macro /\ ~StartsWith(trim_whitespaces(read), S_mcro)
                        /\ ~StartsWith(trim_whitespaces(read), S_endmcro)) =>
                       macro_table' = [macro_table EXCEPT ![Len(macro_table)].lines =
                                          Append(@, read)]
            ELSE /\ macro_table' = macro_table
                 /\ IF \E k \in 1..Len(macro_table) :
                          macro_table[k].name = trim_whitespaces(read)
                    THEN \E k \in 1..Len(macro_table) :
                            /\ macro_table[k].name = trim_whitespaces(read)
                            /\ am_file' = am_file \o macro_table[k].lines
                    ELSE am_file' = Append(am_file, read)]_vars
    /\ [](as_read = SourceFile(E_macro_body) =>
             am_file = SourceFile(<<L_X_data, L_jmp_X, L_stop>>))

\* C26 witness: the macro of two lines has been expanded after a line that
\* was written as read.
C26_Witness ==
    /\ pc = "pre_process"
    /\ as_read = SourceFile(E_macro_body)
    /\ am_file = SourceFile(<<L_X_data, L_jmp_X, L_stop>>)
    /\ pre_success

\* C27: the names of the macro table are unique.
C27_UniqueMacroNames ==
    \A i, j \in 1..Len(macro_table) : macro_table[i].name = macro_table[j].name => i = j

\* ------------------------------------------------------------------------
\* Claims checked on SpecOperation
\* ------------------------------------------------------------------------
\* The mode of each operand handed to process_operation
ModeOf(operand) ==
    IF operand = O_number THEN IMMEDIATE_ADDR
    ELSE IF operand = O_register THEN REG_DIRECT_ADDR
    ELSE DIRECT_ADDR

\* The number of operands of each group of opcodes
OperandCount(op) ==
    IF op \in {MOV_OP, CMP_OP, ADD_OP, SUB_OP, LEA_OP} THEN 2
    ELSE IF op \in {RTS_OP, STOP_OP} THEN 0
    ELSE 1

\* The table of modes, for operands whose number is that of the opcode
ModesAllowed(op, ops) ==
    IF op \in {MOV_OP, ADD_OP, SUB_OP}
    THEN ModeOf(ops[2]) \in {DIRECT_ADDR, REG_DIRECT_ADDR}
    ELSE IF op = LEA_OP
    THEN ModeOf(ops[1]) = DIRECT_ADDR /\ ModeOf(ops[2]) \in {DIRECT_ADDR, REG_DIRECT_ADDR}
    ELSE IF op \in {NOT_OP, CLR_OP, INC_OP, DEC_OP, JMP_OP, BNE_OP, RED_OP, JSR_OP}
    THEN ModeOf(ops[1]) \in {DIRECT_ADDR, REG_DIRECT_ADDR}
    ELSE TRUE

\* The errors process_operation printed
OperationErrors == [i \in 1..Len(err_log) |-> err_log[i].err]

\* C24 as claimed: process_operation accepts exactly the operands whose
\* number and modes fit the opcode, and reports every other number of
\* operands with OP_INVALID_OPERANDS_NUM and every other mode with
\* OP_INVALID_OPERANDS_MODE.
C24_AnyCountMismatch ==
    op_result # <<>> =>
        \A ops \in OperandLists : op_line = OperandText(op_type, ops) =>
            IF Len(ops) # OperandCount(op_type)
            THEN op_result = <<FALSE>> /\ OperationErrors = <<"OP_INVALID_OPERANDS_NUM">>
            ELSE IF ~ModesAllowed(op_type, ops)
            THEN op_result = <<FALSE>> /\ OperationErrors = <<"OP_INVALID_OPERANDS_MODE">>
            ELSE op_result = <<TRUE>> /\ OperationErrors = <<>>

\* C24 as amended: process_operation accepts exactly the operands whose
\* number and modes fit the opcode; it reports a wrong number of operands
\* with OP_INVALID_OPERANDS_NUM when there is an operand and with
\* OP_MISSING_OPERAND when there is none, and a wrong mode with
\* OP_INVALID_OPERANDS_MODE.
C24_OperandTable ==
    op_result # <<>> =>
        \A ops \in OperandLists : op_line = OperandText(op_type, ops) =>
            IF Len(ops) # OperandCount(op_type)
            THEN /\ op_result = <<FALSE>>
                 /\ OperationErrors = IF ops = <<>> THEN <<"OP_MISSING_OPERAND">>
                                      ELSE <<"OP_INVALID_OPERANDS_NUM">>
            ELSE IF ~ModesAllowed(op_type, ops)
            THEN op_result = <<FALSE>> /\ OperationErrors = <<"OP_INVALID_OPERANDS_MODE">>
            ELSE op_result = <<TRUE>> /\ OperationErrors = <<>>

\* C24 witness: lea has been accepted with a symbol as source and a register
\* as destination.
C24_Witness ==
    /\ op_type = LEA_OP
    /\ op_line = OperandText(LEA_OP, <<N_A, O_register>>)
    /\ op_result = <<TRUE>>

\* C25: the word process_operation emits for an accepted instruction is
\* ((source << 7) | (opcode << 3) | destination) << 2, its ARE field 0, where
\* two operands give the source and the destination mode, a single operand
\* gives the destination mode and source 0, and no operand gives 0 for both;
\* the word is below 4096.
C25_OpcodeWord ==
    op_result = <<TRUE>> =>
        \A ops \in OperandLists : op_line = OperandText(op_type, ops) =>
            /\ ReadWord(code, 0) =
                  ((IF Len(ops) = 2 THEN ModeOf(ops[1]) ELSE 0) * 128
                   + op_type * 8
                   + (IF Len(ops) = 0 THEN 0 ELSE ModeOf(ops[Len(ops)]))) * 4
            /\ ReadWord(code, 0) < 4096
            /\ ReadWord(code, 0) % 4 = ABSOLUTE
            /\ DOMAIN code = {0}

\* C25 witness: cmp @r1, -1 has been accepted and its word emitted.
C25_Witness ==
    /\ op_type = CMP_OP
    /\ op_line = OperandText(CMP_OP, <<O_register, O_number>>)
    /\ op_result = <<TRUE>>
    /\ ReadWord(code, 0) = (5 * 128 + 1 * 8 + 1) * 4

\* ------------------------------------------------------------------------
\* Further claims checked on Spec
\* ------------------------------------------------------------------------
\* Pass 1 has just parsed a line L: .extern X or L: .entry X, X not yet in
\* the symbol table.
LabelledExternOrEntry ==
    /\ LineJustParsed
    /\ InfoAt(Len(hist)).label # <<>>
    /\ InfoAt(Len(hist)).op = NONE_OP
    /\ InfoAt(Len(hist)).dir \in {EXTERN, ENTRY}
    /\ InfoAt(Len(hist)).param \notin Names(before.symbol_table)

\* C28: on a line L: .extern X or L: .entry X of pass 1 the label is
\* discarded silently: the line is accepted without an error, the symbol
\* table gains X alone, external and at address 0, for .extern, and is
\* unchanged for .entry.
C28_LabelDiscarded ==
    LabelledExternOrEntry =>
        /\ hist[Len(hist)].ok
        /\ \A i \in 1..Len(err_log) : err_log[i].line # line_num - 1
        /\ IF InfoAt(Len(hist)).dir = EXTERN
           THEN /\ Len(symbol_table) = Len(before.symbol_table) + 1
                /\ SubSeq(symbol_table, 1, Len(before.symbol_table)) = before.symbol_table
                /\ symbol_table[Len(symbol_table)].name = InfoAt(Len(hist)).param
                /\ symbol_table[Len(symbol_table)].is_ext
                /\ symbol_table[Len(symbol_table)].address = 0
           ELSE symbol_table = before.symbol_table

\* C29: when pass 2 is about to decode the modes of an operation line from
\* code[ic], pass 1 accepted that line and emitted its opcode word at this
\* ic, also in the runs in which pass 1 reported errors.
C29_DecodesOwnWord ==
    (/\ pc = "second_pass"
     /\ line_num <= Len(am)
     /\ ~hist[line_num].ignored
     /\ InfoAt(line_num).op # NONE_OP) =>
        /\ hist[line_num].ok
        /\ ic = hist[line_num].ic

\* ------------------------------------------------------------------------
\* Claims checked on SpecMemory
\* ------------------------------------------------------------------------
\* C30: the counters never pass the size of the arrays, however many lines
\* pass 1 accepts.
C30_CountersWithinMemory ==
    ic <= MEM_SIZE /\ dc <= MEM_SIZE

\* ------------------------------------------------------------------------
\* Claims checked on SpecRun
\* ------------------------------------------------------------------------
\* C21: the artifacts of a file depend on its contents alone: when main has
\* processed a file whose contents it processed before in the same run, and
\* either time left an object file, it has left the same files with the
\* same contents both times, whatever it processed before each.
C21_SameArtifacts ==
    pc = "done" =>
        \A j \in 1..Len(outputs) :
            (argv[j] = argv[Len(argv)] /\ (outputs[j].ob # NULL \/ files.ob # NULL)) =>
                files = outputs[j]

\* C21 witness: a file without entries has been assembled first and again
\* after a file with entries, code and data.
C21_Witness ==
    /\ pc = "done"
    /\ argv = <<E_data, E_entry_order, E_data>>
    /\ outputs[2].ent # NULL
    /\ files.ob # NULL
    /\ files.ent = NULL
    /\ files = outputs[1]

====
